---- MODULE Spec2Model ----
(***************************************************************************)
(* Model of the garmin-explorer fetch-and-cache core:                       *)
(*   lib/database.py  - the SQLite store (users, cached_activities,         *)
(*                      weekly_stats) and its upsert / query / delete ops   *)
(*   lib/cache.py     - sync_user, sync_all_users, compute_weekly_stats     *)
(*   lib/garmin.py    - the adapter boundary (resume, get_display_name,     *)
(*                      get_activities)                                     *)
(*   scripts/cleanup_pre2026.py - the retention sweep                       *)
(*                                                                         *)
(* Encoding of Python / SQL values:                                        *)
(*   - a numeric field that is absent or None is None (-1); the adapter's   *)
(*     metrics are non-negative                                             *)
(*   - activityId 0 stands for every falsy id (absent, None, 0)             *)
(*   - a timestamp text is [kind, y, m, d]: kind "none" is NULL / absent /  *)
(*     empty, kind "bad" is a text datetime.fromisoformat rejects (it       *)
(*     sorts after every digit-led text), kind "iso" is 'YYYY-MM-DD...'     *)
(*   - the bookkeeping columns id, fetched_at, created_at, computed_at are  *)
(*     not stored in the model rows; a rowid is only ever tested for        *)
(*     being non-zero                                                       *)
(***************************************************************************)
EXTENDS Integers, Sequences, FiniteSets, TLC

VARIABLES users, cached_activities, weekly_stats, now, ops, last, txn

vars == <<users, cached_activities, weekly_stats, now, ops, last, txn>>

(* ------------------------------ bounds --------------------------------- *)

MaxBatch == 2

MaxClock == 2

MaxOps == 5

MaxSyncOps == 3

(* ------------------------- program constants --------------------------- *)

None == -1

TRAINING_START_YEAR == 2026

TRAINING_START_DATE == [kind |-> "iso", y |-> 2026, m |-> 1, d |-> 1]

COMPUTE_LIMIT == 10000

BACKFILL_DAYS == 90

INCREMENTAL_DAYS == 7

(* ------------------------------ domains -------------------------------- *)

Users == {"pat", "sam"}

GarminIds == {1, 2}

NoTime == [kind |-> "none", y |-> 0, m |-> 0, d |-> 0]

BadTime == [kind |-> "bad", y |-> 0, m |-> 0, d |-> 0]

Iso(y, m, d) == [kind |-> "iso", y |-> y, m |-> m, d |-> d]

(* ------------------------- calendar arithmetic ------------------------- *)

\* datetime.date.toordinal-style day number of a proleptic Gregorian date
\* (days since 1970-01-01), as date arithmetic in cache.py computes it.
DaysFromCivil(y, m, d) ==
    LET yy  == IF m <= 2 THEN y - 1 ELSE y
        era == yy \div 400
        yoe == yy - era * 400
        mp  == IF m > 2 THEN m - 3 ELSE m + 9
        doy == (153 * mp + 2) \div 5 + d - 1
        doe == yoe * 365 + yoe \div 4 - yoe \div 100 + doy
    IN  era * 146097 + doe - 719468

CivilFromDays(z0) ==
    LET z   == z0 + 719468
        era == z \div 146097
        doe == z - era * 146097
        yoe == (doe - doe \div 1460 + doe \div 36524 - doe \div 146096) \div 365
        doy == doe - (365 * yoe + yoe \div 4 - yoe \div 100)
        mp  == (5 * doy + 2) \div 153
        d   == doy - (153 * mp + 2) \div 5 + 1
        m   == IF mp < 10 THEN mp + 3 ELSE mp - 9
        y   == yoe + era * 400 + (IF m <= 2 THEN 1 ELSE 0)
    IN  Iso(y, m, d)

\* date.weekday(): Monday = 0 .. Sunday = 6 (1970-01-01 was a Thursday)
Weekday(t) == (DaysFromCivil(t.y, t.m, t.d) + 3) % 7

\* the week key with weeks taken to start on Sunday
WeekKeySundayStart(t) ==
    CivilFromDays(DaysFromCivil(t.y, t.m, t.d) - ((Weekday(t) + 1) % 7))

\* monday = dt.date() - timedelta(days=dt.weekday()); monday.isoformat()
WeekKey(t) == CivilFromDays(DaysFromCivil(t.y, t.m, t.d) - Weekday(t))

\* datetime.fromisoformat succeeds exactly on the "iso" texts
Parseable(t) == t.kind = "iso"

\* SQL text comparison  t < bound  for an ISO bound; NULL compares to NULL
\* (not true), the unparseable text sorts after the digits.
TextLess(t, bound) ==
    /\ t.kind = "iso"
    /\ \/ t.y < bound.y
       \/ t.y = bound.y /\ t.m < bound.m
       \/ t.y = bound.y /\ t.m = bound.m /\ t.d < bound.d

\* str.startswith("2026") on the timestamp text ("" for a falsy one)
StartsWithYear(t, year) == t.kind = "iso" /\ t.y = year


(* ------------------------- raw adapter records ------------------------- *)

\* The shapes of raw records the remote source hands out (all fields but
\* the id).  activityType is the typeKey of the nested dict, "<absent>" when
\* the key is missing and "<None>" when its value is None.
RawShapes ==
    { [activityType |-> "running", distance |-> 5, duration |-> 30,
       calories |-> 300, elevationGain |-> 10,
       startTimeLocal |-> Iso(2026, 1, 6), startTimeGMT |-> Iso(2026, 1, 6)],
      [activityType |-> "cycling", distance |-> 8, duration |-> 60,
       calories |-> 500, elevationGain |-> None,
       startTimeLocal |-> NoTime, startTimeGMT |-> Iso(2026, 1, 1)],
      [activityType |-> "running", distance |-> 2, duration |-> 10,
       calories |-> 100, elevationGain |-> 0,
       startTimeLocal |-> Iso(2025, 12, 30), startTimeGMT |-> Iso(2025, 12, 30)],
      [activityType |-> "hiking", distance |-> 4, duration |-> 20,
       calories |-> 200, elevationGain |-> 30,
       startTimeLocal |-> BadTime, startTimeGMT |-> Iso(2026, 1, 7)],
      [activityType |-> "<absent>", distance |-> None, duration |-> None,
       calories |-> None, elevationGain |-> None,
       startTimeLocal |-> NoTime, startTimeGMT |-> NoTime] }

\* a record whose activityType key is present with the value None
NullTypeShape ==
    [activityType |-> "<None>", distance |-> 3, duration |-> 15,
     calories |-> 150, elevationGain |-> 5,
     startTimeLocal |-> Iso(2026, 1, 8), startTimeGMT |-> Iso(2026, 1, 8)]

WithId(shape, id) ==
    [activityId |-> id,
     activityType |-> shape.activityType, distance |-> shape.distance,
     duration |-> shape.duration, calories |-> shape.calories,
     elevationGain |-> shape.elevationGain,
     startTimeLocal |-> shape.startTimeLocal,
     startTimeGMT |-> shape.startTimeGMT]

SeqsUpTo(S, n) == UNION { [1..k -> S] : k \in 0..n }

(* --------------------------- Python helpers ---------------------------- *)

\* x or 0
OrZero(x) == IF x = None \/ x = 0 THEN 0 ELSE x

\* a.get("startTimeLocal") or a.get("startTimeGMT")
StartTimeOf(a) ==
    IF a.startTimeLocal.kind # "none" THEN a.startTimeLocal ELSE a.startTimeGMT

\* a.get("activityType", {}).get("typeKey", "unknown")
TypeKeyRaises(a) == a.activityType = "<None>"

TypeKeyOf(a) == IF a.activityType = "<absent>" THEN "unknown" ELSE a.activityType

(* ------------------------------ get_db --------------------------------- *)

\* a connection in autocommit mode: every statement that ran stays applied
get_db_autocommit(before, after, raised) == after

\* with get_db() as db: ...   The body runs inside one implicit transaction;
\* commit happens only when the body did not raise, close() without commit
\* rolls the transaction back.
get_db(before, after, raised) == IF raised THEN before ELSE after

(* ------------------------- cached_activities --------------------------- *)

ActivityRow(user_name, a) ==
    [user_name        |-> user_name,
     garmin_id        |-> a.activityId,
     activity_type    |-> TypeKeyOf(a),
     distance_m       |-> OrZero(a.distance),
     elevation_gain_m |-> OrZero(a.elevationGain),
     duration_s       |-> OrZero(a.duration),
     calories         |-> OrZero(a.calories),
     start_time       |-> StartTimeOf(a),
     activity_json    |-> a]

\* a uniqueness constraint on garmin_id alone instead of UNIQUE(user_name,
\* garmin_id)
ConflictsAcrossUsers(rows, row) ==
    { r \in rows : r.garmin_id = row.garmin_id }

Conflicts(rows, row) ==
    { r \in rows : r.user_name = row.user_name /\ r.garmin_id = row.garmin_id }

\* INSERT OR REPLACE: the conflicting row is deleted and a new row inserted,
\* which sets the last insert rowid on the update path too
InsertOrReplaceActivity(conn, row) ==
    [rows |-> (conn.rows \ Conflicts(conn.rows, row)) \cup {row},
     lastrowid |-> 1]

\* a plain INSERT into a table without the UNIQUE(user_name, garmin_id) index
InsertActivityNoIndex(conn, row) ==
    [rows |-> conn.rows \cup {row}, lastrowid |-> 1]

\* INSERT ... ON CONFLICT(user_name, garmin_id) DO UPDATE SET <all data fields>
\* conn is [rows, lastrowid]: a true insert sets the connection's last insert
\* rowid to the (positive) rowid of the new row, the update path leaves it.
InsertOrUpdateActivity(conn, row) ==
    IF Conflicts(conn.rows, row) = {}
    THEN [rows |-> conn.rows \cup {row}, lastrowid |-> 1]
    ELSE [rows |-> (conn.rows \ Conflicts(conn.rows, row)) \cup {row},
          lastrowid |-> conn.lastrowid]

\* the body of the for loop of upsert_activities for the i-th record;
\* st is [rows, lastrowid, inserted, raised]; fault is the index of the
\* record whose db.execute raises (0: none does)
UpsertStep(st, user_name, a, i, fault) ==
    IF st.raised THEN st
    ELSE IF a.activityId = 0 THEN st
    ELSE IF TypeKeyRaises(a) \/ i = fault THEN [st EXCEPT !.raised = TRUE]
    ELSE LET conn == InsertOrUpdateActivity(
                        [rows |-> st.rows, lastrowid |-> st.lastrowid],
                        ActivityRow(user_name, a))
         IN  [rows      |-> conn.rows,
              lastrowid |-> conn.lastrowid,
              inserted  |-> IF conn.lastrowid # 0 THEN st.inserted + 1
                            ELSE st.inserted,
              raised    |-> FALSE]

RECURSIVE UpsertLoop(_, _, _, _, _)
UpsertLoop(st, user_name, activities, i, fault) ==
    IF i > Len(activities) THEN st
    ELSE UpsertLoop(UpsertStep(st, user_name, activities[i], i, fault),
                    user_name, activities, i + 1, fault)

\* upsert_activities committing after every record instead of once per batch
upsert_activities_commit_each(rows, user_name, activities, fault) ==
    LET st == UpsertLoop([rows |-> rows, lastrowid |-> 0, inserted |-> 0,
                          raised |-> FALSE], user_name, activities, 1, fault)
    IN  [rows |-> st.rows, ret |-> st.inserted, raised |-> st.raised]

\* upsert_activities(user_name, activities) on the table rows:
\* [rows |-> table after the call, ret |-> returned count (the count reached
\* when the call raised), raised |-> ...]
upsert_activities(rows, user_name, activities, fault) ==
    LET st == UpsertLoop([rows |-> rows, lastrowid |-> 0, inserted |-> 0,
                          raised |-> FALSE], user_name, activities, 1, fault)
    IN  [rows   |-> get_db(rows, st.rows, st.raised),
         ret    |-> st.inserted,
         raised |-> st.raised]

\* SELECT COUNT(*) FROM cached_activities WHERE user_name = ?
get_activity_count(rows, user_name) ==
    Cardinality({ r \in rows : r.user_name = user_name })

\* an ORDER BY that puts NULL after every text (NULLS LAST in ascending
\* order, so first in descending order)
TimeRankNullsHigh(t) ==
    CASE t.kind = "none" -> 4000000
      [] t.kind = "iso"  -> 1000000 + DaysFromCivil(t.y, t.m, t.d)
      [] OTHER           -> 3000000

\* ORDER BY start_time: NULL first, then text in byte order
TimeRank(t) ==
    CASE t.kind = "none" -> 0
      [] t.kind = "iso"  -> 1000000 + DaysFromCivil(t.y, t.m, t.d)
      [] OTHER           -> 3000000

IsInjective(f) == \A i, j \in DOMAIN f : f[i] = f[j] => i = j

\* every order the SELECT ... ORDER BY start_time DESC may produce
DescOrders(S) ==
    { f \in [1..Cardinality(S) -> S] :
        /\ IsInjective(f)
        /\ \A i \in 1..(Cardinality(S) - 1) :
              TimeRank(f[i].start_time) >= TimeRank(f[i + 1].start_time) }

Min(a, b) == IF a < b THEN a ELSE b

\* get_cached_activities(user_name, limit): the set of results the query
\* may return.  user_name "" stands for None (no filter).
get_cached_activities(rows, user_name, limit) ==
    LET sel == IF user_name # "" THEN { r \in rows : r.user_name = user_name }
               ELSE rows
    IN  { SubSeq(f, 1, Min(limit, Len(f))) : f \in DescOrders(sel) }


(* -------------------------------- users -------------------------------- *)

NullText == "<NULL>"

Emails == {"pat@x.org", "sam@x.org"}

UserRow(name, garmin_email, display_name, last_synced_at) ==
    [name |-> name, garmin_email |-> garmin_email,
     display_name |-> display_name, last_synced_at |-> last_synced_at]

\* last_synced_at = excluded.last_synced_at, without the COALESCE
CoalesceExcluded(x, y) == x

\* COALESCE(excluded.last_synced_at, last_synced_at)
Coalesce(x, y) == IF x # None THEN x ELSE y

\* upsert_user on the users table: INSERT ... ON CONFLICT(name) DO UPDATE.
\* garmin_email is UNIQUE: a non-NULL email held by another row makes the
\* statement fail with an IntegrityError, which get_db rolls back.
upsert_user(rows, name, garmin_email, display_name, last_synced_at) ==
    LET old    == { r \in rows : r.name = name }
        clash  == /\ garmin_email # NullText
                  /\ \E r \in rows : r.name # name /\ r.garmin_email = garmin_email
        merged == IF old = {}
                  THEN rows \cup {UserRow(name, garmin_email, display_name,
                                          last_synced_at)}
                  ELSE (rows \ old) \cup
                       { UserRow(name, garmin_email, display_name,
                                 Coalesce(last_synced_at, r.last_synced_at))
                         : r \in old }
    IN  [rows |-> get_db(rows, merged, clash), raised |-> clash]

\* delete_user: three DELETEs in one get_db block; fault is the index of the
\* statement that raises (0: none).  db is [users, cached_activities,
\* weekly_stats].
delete_user(db, user_name, fault) ==
    LET d1 == [db EXCEPT !.cached_activities =
                  { r \in db.cached_activities : r.user_name # user_name }]
        d2 == [d1 EXCEPT !.weekly_stats =
                  { r \in d1.weekly_stats : r.user_name # user_name }]
        d3 == [d2 EXCEPT !.users = { r \in d2.users : r.name # user_name }]
        work == CASE fault = 1 -> db
                  [] fault = 2 -> d1
                  [] fault = 3 -> d2
                  [] OTHER     -> d3
    IN  [db |-> get_db(db, work, fault # 0), raised |-> fault # 0]

\* cleanup_pre2026_activities: returns the number of deleted activities
cleanup_pre2026_activities(db) ==
    LET oldActs  == { r \in db.cached_activities :
                        TextLess(r.start_time, TRAINING_START_DATE) }
        oldWeeks == { r \in db.weekly_stats :
                        TextLess(r.week_start, TRAINING_START_DATE) }
    IN  [db  |-> [db EXCEPT !.cached_activities = @ \ oldActs,
                            !.weekly_stats = @ \ oldWeeks],
         ret |-> Cardinality(oldActs)]

(* ----------------------------- weekly_stats ---------------------------- *)

WeeklyRow(user_name, week_start, total_distance_m, total_duration_s, total_activities, total_calories) ==
    [user_name |-> user_name, week_start |-> week_start,
     total_distance_m |-> total_distance_m,
     total_duration_s |-> total_duration_s,
     total_activities |-> total_activities,
     total_calories |-> total_calories]

\* an upsert that adds the new totals to the stored ones
upsert_weekly_stats_additive(rows, row) ==
    LET old == { r \in rows : r.user_name = row.user_name
                              /\ r.week_start = row.week_start }
    IN  IF old = {} THEN rows \cup {row}
        ELSE (rows \ old) \cup
             { [r EXCEPT !.total_distance_m = @ + row.total_distance_m,
                         !.total_duration_s = @ + row.total_duration_s,
                         !.total_activities = @ + row.total_activities,
                         !.total_calories = @ + row.total_calories]
               : r \in old }

\* an upsert that leaves a stored row as it is (ON CONFLICT DO NOTHING)
upsert_weekly_stats_keep_stored(rows, row) ==
    LET old == { r \in rows : r.user_name = row.user_name
                              /\ r.week_start = row.week_start }
    IN  IF old = {} THEN rows \cup {row} ELSE rows

\* upsert_weekly_stats: INSERT ... ON CONFLICT(user_name, week_start)
\* DO UPDATE SET <all totals> = excluded.<...>, one get_db block per call
upsert_weekly_stats(rows, row) ==
    LET old == { r \in rows : r.user_name = row.user_name
                              /\ r.week_start = row.week_start }
    IN  (rows \ old) \cup {row}

\* get_weekly_stats(user_name, weeks): ORDER BY week_start DESC LIMIT weeks
get_weekly_stats(rows, user_name, weeks) ==
    LET sel == IF user_name # "" THEN { r \in rows : r.user_name = user_name }
               ELSE rows
    IN  { SubSeq(f, 1, Min(weeks, Len(f))) :
            f \in { g \in [1..Cardinality(sel) -> sel] :
                      /\ IsInjective(g)
                      /\ \A i \in 1..(Cardinality(sel) - 1) :
                           ~TextLess(g[i].week_start, g[i + 1].week_start) } }

(* ------------------------- compute_weekly_stats ------------------------ *)

\* a grouping loop that keeps the values of the activity seen last instead
\* of adding them up
GroupStepKeepLast(weeks, a) ==
    IF ~Parseable(a.start_time) THEN weeks
    ELSE LET week_key == WeekKey(a.start_time)
             known    == { i \in 1..Len(weeks) : weeks[i].week_start = week_key }
             ws       == IF known = {}
                         THEN Append(weeks, [week_start |-> week_key,
                                             distance_m |-> 0, duration_s |-> 0,
                                             activities |-> 0, calories |-> 0])
                         ELSE weeks
             k        == CHOOSE i \in 1..Len(ws) : ws[i].week_start = week_key
         IN  [ws EXCEPT ![k] =
                 [week_start |-> week_key,
                  distance_m |-> OrZero(a.distance_m),
                  duration_s |-> OrZero(a.duration_s),
                  activities |-> @.activities + 1,
                  calories   |-> OrZero(a.calories)]]

\* the body of the grouping loop: weeks is the dict in insertion order, a
\* sequence of [week_start, distance_m, duration_s, activities, calories]
GroupStep(weeks, a) ==
    IF ~Parseable(a.start_time) THEN weeks
    ELSE LET week_key == WeekKey(a.start_time)
             known    == { i \in 1..Len(weeks) : weeks[i].week_start = week_key }
             ws       == IF known = {}
                         THEN Append(weeks, [week_start |-> week_key,
                                             distance_m |-> 0, duration_s |-> 0,
                                             activities |-> 0, calories |-> 0])
                         ELSE weeks
             k        == CHOOSE i \in 1..Len(ws) : ws[i].week_start = week_key
         IN  [ws EXCEPT ![k] =
                 [week_start |-> week_key,
                  distance_m |-> @.distance_m + OrZero(a.distance_m),
                  duration_s |-> @.duration_s + OrZero(a.duration_s),
                  activities |-> @.activities + 1,
                  calories   |-> @.calories + OrZero(a.calories)]]

RECURSIVE GroupByWeek(_, _, _)
GroupByWeek(weeks, activities, i) ==
    IF i > Len(activities) THEN weeks
    ELSE GroupByWeek(GroupStep(weeks, activities[i]), activities, i + 1)

\* a storing loop inside one transaction: a failing write undoes the writes
\* before it
RECURSIVE StoreWeeksOneTransaction(_, _, _, _, _)
StoreWeeksOneTransaction(rows, user_name, weeks, i, fault) ==
    IF fault \in i..Len(weeks) THEN rows
    ELSE IF i > Len(weeks) THEN rows
    ELSE StoreWeeksOneTransaction(
            upsert_weekly_stats(rows,
                WeeklyRow(user_name, weeks[i].week_start, weeks[i].distance_m,
                          weeks[i].duration_s, weeks[i].activities,
                          weeks[i].calories)),
            user_name, weeks, i + 1, fault)

\* the storing loop: one upsert_weekly_stats (one transaction) per week;
\* the fault-th write raises, the writes before it stay committed
RECURSIVE StoreWeeks(_, _, _, _, _)
StoreWeeks(rows, user_name, weeks, i, fault) ==
    IF i > Len(weeks) \/ i = fault THEN rows
    ELSE StoreWeeks(
            upsert_weekly_stats(rows,
                WeeklyRow(user_name, weeks[i].week_start, weeks[i].distance_m,
                          weeks[i].duration_s, weeks[i].activities,
                          weeks[i].calories)),
            user_name, weeks, i + 1, fault)

\* a recomputation that first removes every rollup of the user
compute_weekly_stats_rebuild(rows, user_name, activities, fault) ==
    LET weeks == GroupByWeek(<<>>, activities, 1)
    IN  [rows   |-> StoreWeeks({ r \in rows : r.user_name # user_name },
                               user_name, weeks, 1, fault),
         weeks  |-> Len(weeks),
         raised |-> fault \in 1..Len(weeks)]

\* compute_weekly_stats(user_name), given the rows get_cached_activities
\* returned: the weekly_stats table after the call and whether it raised
compute_weekly_stats(rows, user_name, activities, fault) ==
    LET weeks == GroupByWeek(<<>>, activities, 1)
    IN  [rows   |-> StoreWeeks(rows, user_name, weeks, 1, fault),
         weeks  |-> Len(weeks),
         raised |-> fault \in 1..Len(weeks)]


(* ------------------------- the remote adapter -------------------------- *)

\* What the remote side does for one user during one sync: whether resume
\* and get_display_name succeed, the full name, and what the activity
\* endpoint would answer (or that it fails).
AdapterStates ==
    LET rec == WithId(CHOOSE s \in RawShapes : s.distance = 5, 1)
        A(r, n, f, k, b) == [resume_ok |-> r, name_ok |-> n, full_name |-> f,
                             fetch_ok |-> k, reply |-> b]
    IN  { A(FALSE, TRUE, "Pat", TRUE, <<>>),
          A(TRUE, FALSE, "Pat", TRUE, <<>>),
          A(TRUE, TRUE, "Pat", FALSE, <<>>),
          A(TRUE, TRUE, "", TRUE, <<>>),
          A(TRUE, TRUE, "Pat", TRUE, <<rec>>) }

\* the parameters get_activities(client, days=30) accepts
GetActivitiesParams == {"client", "days"}

\* get_activities called with the keyword arguments kwargs (a set of
\* [name, value]); Python raises TypeError on an unexpected keyword before
\* the body runs
get_activities(kwargs, adapter) ==
    IF \E kw \in kwargs : kw.name \notin GetActivitiesParams
    THEN [raised |-> TRUE, error |-> "TypeError: unexpected keyword argument",
          value |-> <<>>]
    ELSE IF ~adapter.fetch_ok
    THEN [raised |-> TRUE, error |-> "adapter: fetch failed", value |-> <<>>]
    ELSE [raised |-> FALSE, error |-> "", value |-> adapter.reply]

\* client.get_full_name() or "Unknown"
get_display_name(adapter) ==
    IF adapter.full_name = "" THEN "Unknown" ELSE adapter.full_name

(* ------------------------------ sync_user ------------------------------ *)

Db == [users |-> users, cached_activities |-> cached_activities,
       weekly_stats |-> weekly_stats]

\* a keyword argument handed to get_activities: days=<n> or start_date=<text>
DaysArg(n) == [name |-> "days", days |-> n, date |-> NoTime]

StartDateArg(t) == [name |-> "start_date", days |-> 0, date |-> t]

\* the keyword arguments sync_user passes to get_activities
SyncFetchArgs == { StartDateArg(TRAINING_START_DATE) }

\* the records of a fetched list that start before the training start date
Pre2026(activities) ==
    { i \in 1..Len(activities) :
        TextLess(StartTimeOf(activities[i]), TRAINING_START_DATE) }

\* sync_user without the defensive filter
FilterNothing(activities) == activities

\* activities_2026: the records whose start time text starts with "2026"
Filter2026(activities) ==
    SelectSeq(activities,
              LAMBDA a : StartsWithYear(StartTimeOf(a), TRAINING_START_YEAR))

NoResult == [user |-> "", display_name |-> "", fetched |-> 0, cached |-> 0,
             new |-> 0, error |-> ""]

Failed(db, error, calls) ==
    [db |-> db, raised |-> TRUE, error |-> error, result |-> NoResult,
     calls |-> calls]

\* sync_user from the defensive filter on: filter, merge, advance the
\* watermark, build the result summary
SyncMerge(db, user_name, garmin_email, display_name, activities, clock) ==
    LET activities_2026 == Filter2026(activities)
        merged == upsert_activities(db.cached_activities, user_name,
                                    activities_2026, 0)
        db1    == [db EXCEPT !.cached_activities = merged.rows]
    IN  IF merged.raised THEN Failed(db1, "storage error", SyncFetchArgs)
        ELSE
        LET usr == upsert_user(db1.users, user_name, garmin_email,
                               display_name, clock)
            db2 == [db1 EXCEPT !.users = usr.rows]
        IN  IF usr.raised
            THEN Failed(db2, "IntegrityError", SyncFetchArgs)
            ELSE [db |-> db2, raised |-> FALSE, error |-> "",
                  result |-> [user |-> user_name,
                              display_name |-> display_name,
                              fetched |-> Len(activities_2026),
                              cached |-> get_activity_count(
                                           db2.cached_activities, user_name),
                              new |-> merged.ret,
                              error |-> ""],
                  calls |-> SyncFetchArgs]

\* sync_user with the fetch error swallowed: the merge and the watermark
\* advance run on an empty fetch
sync_user_swallow(db, user_name, garmin_email, adapter, clock) ==
    IF ~adapter.resume_ok THEN Failed(db, "resume failed", {})
    ELSE IF ~adapter.name_ok THEN Failed(db, "display name failed", {})
    ELSE SyncMerge(db, user_name, garmin_email, get_display_name(adapter),
                   get_activities(SyncFetchArgs, adapter).value, clock)

\* sync_user registering the user as soon as the session is resumed
sync_user_register_first(db, user_name, garmin_email, adapter, clock) ==
    IF ~adapter.resume_ok THEN Failed(db, "resume failed", {})
    ELSE IF ~adapter.name_ok THEN Failed(db, "display name failed", {})
    ELSE
    LET display_name == get_display_name(adapter)
        db0   == [db EXCEPT !.users =
                     upsert_user(db.users, user_name, garmin_email,
                                 display_name, None).rows]
        fetch == get_activities(SyncFetchArgs, adapter)
    IN  IF fetch.raised THEN Failed(db0, fetch.error, SyncFetchArgs)
        ELSE SyncMerge(db0, user_name, garmin_email, display_name,
                       fetch.value, clock)

\* sync_user(user_name, garmin_email) against the store db at time clock:
\* [db, raised, error, result, calls], calls being the keyword arguments
\* handed to get_activities ({} when the call was not reached)
sync_user(db, user_name, garmin_email, adapter, clock) ==
    IF ~adapter.resume_ok THEN Failed(db, "resume failed", {})
    ELSE IF ~adapter.name_ok THEN Failed(db, "display name failed", {})
    ELSE
    LET display_name == get_display_name(adapter)
        fetch        == get_activities(SyncFetchArgs, adapter)
    IN  IF fetch.raised THEN Failed(db, fetch.error, SyncFetchArgs)
        ELSE SyncMerge(db, user_name, garmin_email, display_name,
                       fetch.value, clock)

(* ------------------------ the garmin_login form ------------------------ *)

\* get_user_by_email: whether a users row holds the address
get_user_by_email(rows, garmin_email) ==
    \E r \in rows : r.garmin_email = garmin_email

\* the submitted "Connect a Garmin account" form: stop when the address is
\* already connected; login(user_name, email, password) saves the tokens and
\* writes nothing to the store; then sync_user(user_name, garmin_email=email)
\* with every exception caught and reported as a warning.
\* [db, authenticated, sync_failed]
garmin_login(db, user_name, email, login_ok, adapter, clock) ==
    IF get_user_by_email(db.users, email)
    THEN [db |-> db, authenticated |-> FALSE, sync_failed |-> FALSE]
    ELSE IF ~login_ok
    THEN [db |-> db, authenticated |-> FALSE, sync_failed |-> FALSE]
    ELSE LET r == sync_user(db, user_name, email, adapter, clock)
         IN  [db |-> r.db, authenticated |-> TRUE, sync_failed |-> r.raised]

(* ---------------------------- sync_all_users --------------------------- *)

\* one turn of the loop: the result entry for name, given what sync_user
\* returned or raised; acc is [db, results]
SyncEntry(acc, name, r) ==
    [db |-> r.db,
     results |-> Append(acc.results,
                        IF r.raised
                        THEN [NoResult EXCEPT !.user = name,
                                              !.error = r.error]
                        ELSE r.result)]

\* the loop without the try/except: the first failing user ends the pass
RECURSIVE SyncLoopFailFast(_, _, _, _, _)
SyncLoopFailFast(acc, user_names, i, world, clock) ==
    IF i > Len(user_names) THEN acc
    ELSE LET r == sync_user(acc.db, user_names[i], NullText,
                            world[user_names[i]], clock)
         IN  IF r.raised THEN acc
             ELSE SyncLoopFailFast(SyncEntry(acc, user_names[i], r),
                                   user_names, i + 1, world, clock)

\* the loop of sync_all_users from the i-th name on; world maps each user
\* to the adapter state met during this pass; acc is [db, results]
RECURSIVE SyncLoop(_, _, _, _, _)
SyncLoop(acc, user_names, i, world, clock) ==
    IF i > Len(user_names) THEN acc
    ELSE SyncLoop(SyncEntry(acc, user_names[i],
                            sync_user(acc.db, user_names[i], NullText,
                                      world[user_names[i]], clock)),
                  user_names, i + 1, world, clock)

\* what sync_all_users returns once the loop is over
SyncReturn(acc) == [db |-> acc.db, results |-> acc.results, raised |-> FALSE]

\* sync_all_users(user_names): [db, results, raised]
sync_all_users(db, user_names, world, clock) ==
    SyncReturn(SyncLoop([db |-> db, results |-> <<>>], user_names, 1, world,
                        clock))


(* ----------------------- scripts/daily_sync.sync_all ------------------- *)

\* one entry of the pass log: which step ran for which user and whether it
\* returned
Event(user, step, ok) == [user |-> user, step |-> step, ok |-> ok]

\* the rest of the try block once sync_user returned on the store db:
\* compute_weekly_stats and success_count += 1, or the except branch when
\* compute_weekly_stats raised.  fault is the index of the rollup write that
\* raises (0: none, 1: the first, which leaves the rollups as they were
\* whatever the order of the cached rows).
DailyCompute(acc, name, db, c) ==
    [db            |-> [db EXCEPT !.weekly_stats = c.rows],
     success_count |-> IF c.raised THEN acc.success_count
                       ELSE acc.success_count + 1,
     error_count   |-> IF c.raised THEN acc.error_count + 1
                       ELSE acc.error_count,
     trace         |-> acc.trace \o << Event(name, "sync_user", TRUE),
                                      Event(name, "compute_weekly_stats",
                                            ~c.raised) >>]

\* the body of the for loop that runs compute_weekly_stats for every user,
\* whether or not sync_user returned
DailyEntryComputeAlways(acc, name, r, fault) ==
    LET c == compute_weekly_stats(
                 r.db.weekly_stats, name,
                 CHOOSE acts \in get_cached_activities(
                     r.db.cached_activities, name, COMPUTE_LIMIT) : TRUE,
                 fault)
        failed == r.raised \/ c.raised
    IN  [db            |-> [r.db EXCEPT !.weekly_stats = c.rows],
         success_count |-> IF failed THEN acc.success_count
                           ELSE acc.success_count + 1,
         error_count   |-> IF failed THEN acc.error_count + 1
                           ELSE acc.error_count,
         trace         |-> acc.trace \o << Event(name, "sync_user", ~r.raised),
                                          Event(name, "compute_weekly_stats",
                                                ~c.raised) >>]

\* the body of the for loop for one user, given what sync_user returned or
\* raised (r); acc is [db, success_count, error_count, trace]
DailyEntry(acc, name, r, fault) ==
    IF r.raised
    THEN [db            |-> r.db,
          success_count |-> acc.success_count,
          error_count   |-> acc.error_count + 1,
          trace         |-> Append(acc.trace, Event(name, "sync_user", FALSE))]
    ELSE DailyCompute(acc, name, r.db,
                      compute_weekly_stats(
                          r.db.weekly_stats, name,
                          CHOOSE acts \in get_cached_activities(
                              r.db.cached_activities, name, COMPUTE_LIMIT) : TRUE,
                          fault))

\* the for loop from the i-th name on; what a turn works on (the counters
\* so far and the outcome of sync_user) is bound once per turn
RECURSIVE DailyLoop(_, _, _, _, _, _)
DailyLoop(acc, names, i, world, faults, clock) ==
    IF i > Len(names) THEN acc
    ELSE CHOOSE out \in
            { DailyLoop(DailyEntry(a, names[i],
                                   sync_user(a.db, names[i], NullText,
                                             world[names[i]], clock),
                                   faults[names[i]]),
                        names, i + 1, world, faults, clock)
              : a \in {acc} } : TRUE

\* the end of sync_all: exit(1) when every user failed
DailyReturn(acc) ==
    [db |-> acc.db, success_count |-> acc.success_count,
     error_count |-> acc.error_count, trace |-> acc.trace,
     exit_status |-> IF acc.error_count > 0 /\ acc.success_count = 0
                     THEN 1 ELSE 0]

\* sync_all() with names the connected users (the token directories in
\* sorted order): [db, success_count, error_count, trace, exit_status]
sync_all(db, names, world, faults, clock) ==
    CHOOSE out \in
        { DailyReturn(acc)
          : acc \in { DailyLoop([db |-> db, success_count |-> 0,
                                 error_count |-> 0, trace |-> <<>>],
                                names, 1, world, faults, clock) } } : TRUE


(* ------------------------------- actions ------------------------------- *)

\* txn is the write transaction a connection holds open while a get_db block
\* is run statement by statement: the call, its arguments, the index i of
\* the next statement, the committed tables when the block was entered (pre),
\* the tables as the writer's own connection sees them (work), and whether
\* the block has been left (done)
NoTxn ==
    [op |-> "idle", user |-> "", batch |-> <<>>, fault |-> 0, i |-> 0,
     pre  |-> [users |-> {}, cached_activities |-> {}, weekly_stats |-> {}],
     work |-> [users |-> {}, cached_activities |-> {}, weekly_stats |-> {}],
     lastrowid |-> 0, inserted |-> 0, raised |-> FALSE, done |-> FALSE]

InFlight == txn.op # "idle" /\ ~txn.done

\* the statements of the block: one per record, or the three DELETEs
StatementCount(t) == IF t.op = "delete_user" THEN 3 ELSE Len(t.batch)

\* the i-th DELETE of delete_user
DeleteStatement(db, user_name, i) ==
    CASE i = 1 -> [db EXCEPT !.cached_activities =
                      { r \in @ : r.user_name # user_name }]
      [] i = 2 -> [db EXCEPT !.weekly_stats =
                      { r \in @ : r.user_name # user_name }]
      [] OTHER -> [db EXCEPT !.users = { r \in @ : r.name # user_name }]

\* a reader that shares the writer's connection sees its uncommitted rows
ReaderViewSharedConnection(committed, t) ==
    IF t.op # "idle" /\ ~t.done THEN t.work ELSE committed

\* what a SELECT on a connection of its own sees: every get_db call opens a
\* new connection in WAL mode, so a reader gets the last committed snapshot
\* whatever a writer has pending
ReaderView(committed, t) == committed

\* last describes the most recent call: the operation, its user, what it
\* returned, whether it raised, and measurements of the call taken against
\* the store as it was before the call
NoCall ==
    [op |-> "init", user |-> "", ret |-> 0, raised |-> FALSE, error |-> "",
     valid |-> 0, fresh |-> 0, before |-> 0, resent |-> FALSE,
     changed |-> FALSE, errors |-> 0, calls |-> {}, synced_before |-> None,
     rollups_before |-> 0, registered_before |-> FALSE,
     adapter_failed |-> FALSE, offered_old |-> 0,
     seen |-> [users |-> {}, activities |-> {}, count |-> 0],
     rows |-> <<>>, authenticated |-> FALSE, trace |-> <<>>,
     names |-> <<>>, email |-> ""]

Call(op, user) == [NoCall EXCEPT !.op = op, !.user = user]

Keys(rows) == { <<r.user_name, r.garmin_id>> : r \in rows }

ValidRecords(b) == { i \in 1..Len(b) : b[i].activityId # 0 }

\* the database as init_db leaves it: three empty tables
Init ==
    /\ users = {}
    /\ cached_activities = {}
    /\ weekly_stats = {}
    /\ now = 1
    /\ ops = 0
    /\ last = NoCall
    /\ txn = NoTxn

LastSynced(rows, u) ==
    IF \E r \in rows : r.name = u
    THEN (CHOOSE r \in rows : r.name = u).last_synced_at
    ELSE None

UpsertActivities(u, b, fault) ==
    LET r == upsert_activities(cached_activities, u, b, fault)
    IN  /\ cached_activities' = r.rows
        /\ last' = [Call("upsert_activities", u) EXCEPT
                       !.ret = r.ret, !.raised = r.raised,
                       !.valid = Cardinality(ValidRecords(b)),
                       !.before = get_activity_count(cached_activities, u),
                       !.fresh = Cardinality(Keys(r.rows) \ Keys(cached_activities)),
                       !.resent = /\ ValidRecords(b) # {}
                                  /\ \A i \in ValidRecords(b) :
                                        ActivityRow(u, b[i]) \in cached_activities,
                       !.changed = r.rows # cached_activities]
        /\ UNCHANGED <<users, weekly_stats, now>>

UpsertUser(u, email, display, synced) ==
    LET r == upsert_user(users, u, email, display, synced)
    IN  /\ users' = r.rows
        /\ last' = [Call("upsert_user", u) EXCEPT
                       !.raised = r.raised, !.changed = r.rows # users,
                       !.synced_before = LastSynced(users, u)]
        /\ UNCHANGED <<cached_activities, weekly_stats, now>>

DeleteUser(u, fault) ==
    LET r == delete_user(Db, u, fault)
    IN  /\ users' = r.db.users
        /\ cached_activities' = r.db.cached_activities
        /\ weekly_stats' = r.db.weekly_stats
        /\ last' = [Call("delete_user", u) EXCEPT
                       !.raised = r.raised, !.changed = r.db # Db,
                       !.before = get_activity_count(cached_activities, u),
                       !.rollups_before =
                           Cardinality({ w \in weekly_stats : w.user_name = u }),
                       !.registered_before = \E x \in users : x.name = u]
        /\ UNCHANGED now

Cleanup ==
    LET r == cleanup_pre2026_activities(Db)
    IN  /\ cached_activities' = r.db.cached_activities
        /\ weekly_stats' = r.db.weekly_stats
        /\ last' = [Call("cleanup", "") EXCEPT
                       !.ret = r.ret, !.changed = r.db # Db]
        /\ UNCHANGED <<users, now>>

ComputeWeeklyStats(u, fault) ==
    \E activities \in get_cached_activities(cached_activities, u, COMPUTE_LIMIT) :
        LET r == compute_weekly_stats(weekly_stats, u, activities, fault)
        IN  /\ weekly_stats' = r.rows
            /\ last' = [Call("compute_weekly_stats", u) EXCEPT
                           !.ret = r.weeks, !.raised = r.raised,
                           !.rollups_before =
                               Cardinality({ w \in weekly_stats :
                                               w.user_name = u }),
                           !.changed = r.rows # weekly_stats]
            /\ UNCHANGED <<users, cached_activities, now>>

SyncUser(u, email, adapter) ==
    LET r == sync_user(Db, u, email, adapter, now)
    IN  /\ users' = r.db.users
        /\ cached_activities' = r.db.cached_activities
        /\ weekly_stats' = r.db.weekly_stats
        /\ last' = [Call("sync_user", u) EXCEPT
                       !.raised = r.raised, !.error = r.error,
                       !.ret = r.result.new, !.calls = r.calls,
                       !.before = get_activity_count(cached_activities, u),
                       !.synced_before = LastSynced(users, u),
                       !.adapter_failed =
                           \/ ~adapter.resume_ok
                           \/ ~adapter.name_ok
                           \/ get_activities(SyncFetchArgs, adapter).raised,
                       !.offered_old = Cardinality(Pre2026(adapter.reply)),
                       !.changed = r.db # Db]
        /\ UNCHANGED now

\* get_cached_activities(user_name, limit) called by a page or by
\* compute_weekly_stats: one of the lists the SELECT may return
GetCachedActivities(u, limit) ==
    \E res \in get_cached_activities(cached_activities, u, limit) :
        /\ last' = [Call("get_cached_activities", u) EXCEPT
                       !.rows = res, !.valid = limit,
                       !.before = Cardinality(
                           { r \in cached_activities :
                               u = "" \/ r.user_name = u })]
        /\ UNCHANGED <<users, cached_activities, weekly_stats, now>>

GarminLogin(u, email, login_ok, adapter) ==
    LET r == garmin_login(Db, u, email, login_ok, adapter, now)
    IN  /\ users' = r.db.users
        /\ cached_activities' = r.db.cached_activities
        /\ weekly_stats' = r.db.weekly_stats
        /\ last' = [Call("garmin_login", u) EXCEPT
                       !.authenticated = r.authenticated,
                       !.email = email,
                       !.raised = r.sync_failed,
                       !.registered_before = \E x \in users : x.name = u,
                       !.changed = r.db # Db]
        /\ UNCHANGED now

SyncAll(names, world, faults) ==
    \E r \in {sync_all(Db, names, world, faults, now)} :
        /\ users' = r.db.users
        /\ cached_activities' = r.db.cached_activities
        /\ weekly_stats' = r.db.weekly_stats
        /\ last' = [Call("sync_all", "") EXCEPT
                       !.ret = r.success_count, !.errors = r.error_count,
                       !.raised = r.exit_status = 1,
                       !.valid = Len(names), !.names = names,
                       !.trace = r.trace, !.changed = r.db # Db]
        /\ UNCHANGED now

ErrorEntries(results) == { i \in 1..Len(results) : results[i].error # "" }

SyncAllUsers(names, world) ==
    LET r == sync_all_users(Db, names, world, now)
    IN  /\ users' = r.db.users
        /\ cached_activities' = r.db.cached_activities
        /\ weekly_stats' = r.db.weekly_stats
        /\ last' = [Call("sync_all_users", "") EXCEPT
                       !.raised = r.raised, !.ret = Len(r.results),
                       !.valid = Len(names),
                       !.errors = Cardinality(ErrorEntries(r.results)),
                       !.changed = r.db # Db]
        /\ UNCHANGED now

\* the wall clock advances between calls
Tick ==
    /\ now < MaxClock
    /\ now' = now + 1
    /\ last' = Call("tick", "")
    /\ UNCHANGED <<users, cached_activities, weekly_stats, ops, txn>>

\* a call that is not counted, and a call counted against a budget of n;
\* the calls above run their get_db block from start to end, so they start
\* only while no connection holds an open write transaction (SQLite admits
\* one writer at a time)
Free == ops' = ops /\ ~InFlight /\ txn' = txn

Spend(n) == ops < n /\ ops' = ops + 1 /\ ~InFlight /\ txn' = txn

\* a block entered statement by statement, counted against a budget of n
Charge(n) == ops < n /\ ops' = ops + 1

(* ------------- upsert_activities and delete_user, stepwise ------------- *)

\* with get_db() as db: a connection of its own is opened; nothing is
\* written yet
StartUpsert(u, b, fault) ==
    /\ ~InFlight
    /\ txn' = [NoTxn EXCEPT !.op = "upsert_activities", !.user = u,
                            !.batch = b, !.fault = fault, !.i = 1,
                            !.pre = Db, !.work = Db]
    /\ last' = Call("start", u)
    /\ UNCHANGED <<users, cached_activities, weekly_stats, now>>

StartDelete(u, fault) ==
    /\ ~InFlight
    /\ txn' = [NoTxn EXCEPT !.op = "delete_user", !.user = u,
                            !.fault = fault, !.i = 1,
                            !.pre = Db, !.work = Db]
    /\ last' = Call("start", u)
    /\ UNCHANGED <<users, cached_activities, weekly_stats, now>>

\* the next statement of the open block runs on the writer's connection:
\* one turn of the for loop of upsert_activities, or one DELETE of
\* delete_user; the first write opens the transaction implicitly
WriteStep ==
    /\ InFlight
    /\ ~txn.raised
    /\ txn.i <= StatementCount(txn)
    /\ IF txn.op = "upsert_activities"
       THEN LET st == UpsertStep([rows      |-> txn.work.cached_activities,
                                  lastrowid |-> txn.lastrowid,
                                  inserted  |-> txn.inserted,
                                  raised    |-> FALSE],
                                 txn.user, txn.batch[txn.i], txn.i, txn.fault)
            IN  txn' = [txn EXCEPT !.work.cached_activities = st.rows,
                                   !.lastrowid = st.lastrowid,
                                   !.inserted = st.inserted,
                                   !.raised = st.raised,
                                   !.i = @ + 1]
       ELSE txn' = [txn EXCEPT
                       !.work = IF txn.i = txn.fault THEN @
                                ELSE DeleteStatement(@, txn.user, txn.i),
                       !.raised = (txn.i = txn.fault),
                       !.i = @ + 1]
    /\ last' = Call("statement", txn.user)
    /\ UNCHANGED <<users, cached_activities, weekly_stats, now, ops>>

\* the block is left: conn.commit() when the body returned, conn.close()
\* alone (a rollback) when it raised
EndTxn ==
    /\ InFlight
    /\ txn.raised \/ txn.i > StatementCount(txn)
    /\ LET db == get_db(txn.pre, txn.work, txn.raised)
       IN  /\ users' = db.users
           /\ cached_activities' = db.cached_activities
           /\ weekly_stats' = db.weekly_stats
    /\ txn' = [txn EXCEPT !.done = TRUE]
    /\ last' = [Call("end", txn.user) EXCEPT
                   !.raised = txn.raised, !.ret = txn.inserted]
    /\ UNCHANGED <<now, ops>>

\* a reader on a connection of its own runs get_all_users,
\* get_cached_activities(u) and get_activity_count(u), while a block is
\* under way or right after it was left
Read(u) ==
    /\ InFlight \/ last.op = "end"
    /\ \E f \in get_cached_activities(
                    ReaderView(Db, txn).cached_activities, u, COMPUTE_LIMIT) :
          last' = [Call("read", u) EXCEPT
                      !.seen = [users      |-> ReaderView(Db, txn).users,
                                activities |-> { f[k] : k \in 1..Len(f) },
                                count      |-> get_activity_count(
                                    ReaderView(Db, txn).cached_activities, u)]]
    /\ UNCHANGED <<users, cached_activities, weekly_stats, now, ops, txn>>

(* ------------------- compute_weekly_stats, stepwise -------------------- *)

\* compute_weekly_stats(u) up to the storing loop: the cached activities
\* are read and grouped; txn holds the pass in progress (batch: the weeks in
\* dict order, i: the next week to write, pre: the store at the start)
StartCompute(u, fault) ==
    /\ ~InFlight
    /\ \E acts \in get_cached_activities(cached_activities, u, COMPUTE_LIMIT) :
          txn' = [NoTxn EXCEPT !.op = "compute_weekly_stats", !.user = u,
                               !.batch = GroupByWeek(<<>>, acts, 1),
                               !.fault = fault, !.i = 1,
                               !.pre = Db, !.work = Db]
    /\ last' = Call("start", u)
    /\ UNCHANGED <<users, cached_activities, weekly_stats, now>>

\* one turn of the storing loop: upsert_weekly_stats for the next week in a
\* get_db block of its own, committed when it returns; the fault-th call
\* raises and ends the loop
StoreWeekStep ==
    /\ InFlight
    /\ txn.op = "compute_weekly_stats"
    /\ ~txn.raised
    /\ txn.i <= Len(txn.batch)
    /\ IF txn.i = txn.fault
       THEN /\ txn' = [txn EXCEPT !.raised = TRUE]
            /\ UNCHANGED weekly_stats
       ELSE /\ weekly_stats' =
                  upsert_weekly_stats(weekly_stats,
                      WeeklyRow(txn.user, txn.batch[txn.i].week_start,
                                txn.batch[txn.i].distance_m,
                                txn.batch[txn.i].duration_s,
                                txn.batch[txn.i].activities,
                                txn.batch[txn.i].calories))
            /\ txn' = [txn EXCEPT !.i = @ + 1]
    /\ last' = Call("statement", txn.user)
    /\ UNCHANGED <<users, cached_activities, now, ops>>

\* compute_weekly_stats returns, or the exception of a write leaves it
EndCompute ==
    /\ InFlight
    /\ txn.op = "compute_weekly_stats"
    /\ txn.raised \/ txn.i > Len(txn.batch)
    /\ txn' = [txn EXCEPT !.done = TRUE]
    /\ last' = [Call("end", txn.user) EXCEPT
                   !.raised = txn.raised, !.ret = Len(txn.batch)]
    /\ UNCHANGED <<users, cached_activities, weekly_stats, now, ops>>

\* get_weekly_stats(u) on a connection of its own while a pass is under way
GetWeeklyStats(u) ==
    /\ InFlight
    /\ txn.op = "compute_weekly_stats"
    /\ \E f \in get_weekly_stats(ReaderView(Db, txn).weekly_stats, u, 8) :
          last' = [Call("get_weekly_stats", u) EXCEPT !.rows = f]
    /\ UNCHANGED <<users, cached_activities, weekly_stats, now, ops, txn>>

(* ---------------------------- input domains ---------------------------- *)

\* the activity store is exercised with two shapes that differ in every
\* data field (one of them before the training start date), every id
\* including the missing one, and batches up to MaxBatch records
StoreShapes == { s \in RawShapes : s.distance \in {5, 2} }

StoreBatches ==
    SeqsUpTo({ WithId(s, i) : s \in StoreShapes, i \in {0} \cup GarminIds },
             MaxBatch)

\* the rollups are exercised with one record at a time, of every shape
WeekBatches == { <<WithId(s, i)>> : s \in RawShapes, i \in GarminIds }

\* the store the sync orchestrator runs against is seeded with single
\* 2026 records
SeedBatches ==
    { <<WithId(s, i)>> : s \in { x \in RawShapes : x.distance = 5 },
                         i \in GarminIds }

\* the merge is exercised with a 2026 record, a record before the training
\* start date under the same id, a record without any start time, a record
\* without id and a record whose activityType is None
MergeRecords ==
    { WithId(CHOOSE s \in RawShapes : s.distance = 5, 1),
      WithId(CHOOSE s \in RawShapes : s.distance = 2, 1),
      WithId(CHOOSE s \in RawShapes : s.activityType = "<absent>", 2),
      WithId(CHOOSE s \in RawShapes : s.distance = 5, 0),
      WithId(NullTypeShape, 2) }

MergeBatches == SeqsUpTo(MergeRecords, MaxBatch)

\* remote sides that answer with such records, and one that cannot resume
MergeAdapters ==
    { [resume_ok |-> ok, name_ok |-> TRUE, full_name |-> "Pat",
       fetch_ok |-> TRUE, reply |-> b]
      : ok \in BOOLEAN,
        b \in { c \in MergeBatches : Len(c) = MaxBatch /\ c[1] # c[2] } }

\* the batches written statement by statement: MaxBatch records that
\* alternate between two ids
TxnBatches ==
    { [i \in 1..MaxBatch |->
          WithId(CHOOSE s \in RawShapes : s.distance = 5,
                 IF i % 2 = 1 THEN a ELSE b)]
      : <<a, b>> \in { p \in GarminIds \X GarminIds : p[1] # p[2] } }

\* a record of the year after the training start year
LaterYearShape ==
    [activityType |-> "running", distance |-> 6, duration |-> 35,
     calories |-> 350, elevationGain |-> 12,
     startTimeLocal |-> Iso(2027, 1, 4), startTimeGMT |-> Iso(2027, 1, 4)]

\* fetched lists of dated records with an id: one before the bound, one of
\* 2026 and one of 2027
WindowRecords ==
    { WithId(CHOOSE s \in RawShapes : s.distance = 2, 1),
      WithId(CHOOSE s \in RawShapes : s.distance = 5, 1),
      WithId(LaterYearShape, 2) }

WindowBatches == SeqsUpTo(WindowRecords, MaxBatch)

NameLists == SeqsUpTo(Users, 2)

Worlds == [Users -> AdapterStates]

(* ---------------------------- specifications --------------------------- *)

\* the activity store under every sequence of its operations
Next ==
    \/ \E u \in Users, b \in StoreBatches : Free /\ UpsertActivities(u, b, 0)
    \/ \E u \in Users, f \in 0..3 : Free /\ DeleteUser(u, f)
    \/ Free /\ Cleanup
    \/ \E u \in Users, a \in AdapterStates : Free /\ SyncUser(u, NullText, a)

Spec == Init /\ [][Next]_vars

\* the rollups: merges, recomputation, retention sweep and user removal
NextRollup ==
    \/ \E u \in Users, b \in WeekBatches :
          Spend(MaxOps) /\ UpsertActivities(u, b, 0)
    \/ \E u \in Users : Spend(MaxOps) /\ ComputeWeeklyStats(u, 0)
    \/ Spend(MaxOps) /\ Cleanup
    \/ \E u \in Users : Spend(MaxOps) /\ UpsertUser(u, NullText, "Pat", None)
    \/ \E u \in Users, f \in 0..3 : Spend(MaxOps) /\ DeleteUser(u, f)

SpecRollup == Init /\ [][NextRollup]_vars

\* the sync orchestrator against a store that holds users, activities and
\* rollups
NextSync ==
    \/ \E u \in Users, e \in Emails \cup {NullText}, s \in {None, now} :
          Spend(MaxSyncOps) /\ UpsertUser(u, e, "Pat", s)
    \/ \E u \in Users, b \in SeedBatches :
          Spend(MaxSyncOps) /\ UpsertActivities(u, b, 0)
    \/ \E u \in Users : Spend(MaxSyncOps) /\ ComputeWeeklyStats(u, 0)
    \/ \E u \in Users, e \in Emails \cup {NullText}, a \in AdapterStates :
          Spend(MaxSyncOps) /\ SyncUser(u, e, a)
    \/ \E names \in NameLists, world \in Worlds :
          Spend(MaxSyncOps) /\ SyncAllUsers(names, world)
    \/ Tick

SpecSync == Init /\ [][NextSync]_vars


\* the merge of fetched records into the activity store, called directly
\* and through sync_user, with a failing statement at any position
NextMerge ==
    \/ \E u \in Users, b \in MergeBatches, f \in 0..MaxBatch :
          Free /\ UpsertActivities(u, b, f)
    \/ \E u \in Users, a \in MergeAdapters :
          Free /\ SyncUser(u, NullText, a)

SpecMerge == Init /\ [][NextMerge]_vars


\* writers that run upsert_activities and delete_user statement by statement
\* while readers on other connections query the store
NextTxn ==
    \/ \E u \in Users, b \in TxnBatches, f \in 0..MaxBatch :
          Charge(MaxOps) /\ StartUpsert(u, b, f)
    \/ \E u \in Users, f \in 0..3 : Charge(MaxOps) /\ StartDelete(u, f)
    \/ WriteStep
    \/ EndTxn
    \/ \E u \in Users : Read(u)
    \/ \E u \in Users : Spend(MaxOps) /\ UpsertUser(u, NullText, "Pat", None)
    \/ \E u \in Users : Spend(MaxOps) /\ ComputeWeeklyStats(u, 0)

SpecTxn == Init /\ [][NextTxn]_vars


\* two users side by side: registration, merges, rollups, removal and syncs
\* of either user in any order
NextPart ==
    \/ \E u \in Users, e \in Emails \cup {NullText} :
          Spend(MaxSyncOps) /\ UpsertUser(u, e, "Pat", None)
    \/ \E u \in Users, b \in SeedBatches :
          Spend(MaxSyncOps) /\ UpsertActivities(u, b, 0)
    \/ \E u \in Users : Spend(MaxSyncOps) /\ ComputeWeeklyStats(u, 0)
    \/ \E u \in Users, f \in 0..3 : Spend(MaxSyncOps) /\ DeleteUser(u, f)
    \/ \E u \in Users, e \in Emails \cup {NullText}, a \in AdapterStates :
          Spend(MaxSyncOps) /\ SyncUser(u, e, a)

SpecPart == Init /\ [][NextPart]_vars

\* the query: stores of up to MaxSyncOps records of every shape (with and
\* without a start time), read with and without a user and with limits
\* below, at and above the number of stored rows
QueryLimits == 0..3

NextQuery ==
    \/ \E u \in Users, b \in WeekBatches :
          Spend(MaxSyncOps) /\ UpsertActivities(u, b, 0)
    \/ \E u \in Users \cup {""}, limit \in QueryLimits :
          Free /\ GetCachedActivities(u, limit)

SpecQuery == Init /\ [][NextQuery]_vars

\* accounts being connected through the form, synced, seeded and removed
NextLogin ==
    \/ \E u \in Users, e \in Emails, ok \in BOOLEAN, a \in AdapterStates :
          Spend(MaxSyncOps) /\ GarminLogin(u, e, ok, a)
    \/ \E u \in Users, e \in Emails \cup {NullText}, a \in AdapterStates :
          Spend(MaxSyncOps) /\ SyncUser(u, e, a)
    \/ \E u \in Users, e \in Emails \cup {NullText} :
          Spend(MaxSyncOps) /\ UpsertUser(u, e, "Pat", None)
    \/ \E u \in Users, b \in SeedBatches :
          Spend(MaxSyncOps) /\ UpsertActivities(u, b, 0)
    \/ \E u \in Users : Spend(MaxSyncOps) /\ DeleteUser(u, 0)
    \/ Tick

SpecLogin == Init /\ [][NextLogin]_vars

\* get_connected_users(): the token directories, sorted by name
ConnectedLists == { <<>>, <<"pat">>, <<"sam">>, <<"pat", "sam">> }

\* the daily pass over a store that holds activities and rollups
NextDaily ==
    \/ \E u \in Users, b \in SeedBatches :
          Spend(MaxSyncOps) /\ UpsertActivities(u, b, 0)
    \/ \E u \in Users : Spend(MaxSyncOps) /\ ComputeWeeklyStats(u, 0)
    \/ \E names \in ConnectedLists, world \in Worlds,
          faults \in [Users -> 0..1] :
          Spend(MaxSyncOps) /\ SyncAll(names, world, faults)
    \/ \E u \in Users, e \in Emails \cup {NullText}, a \in AdapterStates :
          Spend(MaxSyncOps) /\ SyncUser(u, e, a)

SpecDaily == Init /\ [][NextDaily]_vars

\* batches that add one activity to each of two weeks
PassBatches ==
    { << WithId(CHOOSE s \in RawShapes : s.distance = 5, 2 * n - 1),
         WithId(CHOOSE s \in RawShapes : s.distance = 2, 2 * n) >>
      : n \in 1..2 }

\* rollup passes run write by write, with readers of get_weekly_stats in
\* between, over stores filled by merges and earlier passes
NextPass ==
    \/ \E u \in Users, b \in PassBatches :
          Spend(MaxOps) /\ UpsertActivities(u, b, 0)
    \/ \E u \in Users : Spend(MaxOps) /\ ComputeWeeklyStats(u, 0)
    \/ \E u \in Users, f \in 0..2 : Charge(MaxOps) /\ StartCompute(u, f)
    \/ StoreWeekStep
    \/ EndCompute
    \/ \E u \in Users : GetWeeklyStats(u)

SpecPass == Init /\ [][NextPass]_vars

(* =============================== claims ================================ *)

(* ----------------------------- C1 (Spec) ------------------------------- *)

\* C1: upsert_activities returns the number of true inserts: the returned
\* count equals the number of (user_name, activityId) keys absent before the
\* call and present after it, so the row count after the call is the row
\* count before it plus the returned count.
C1_ReturnsTrueInserts ==
    (last.op = "upsert_activities" /\ ~last.raised) =>
        /\ last.ret = last.fresh
        /\ get_activity_count(cached_activities, last.user)
              = last.before + last.ret

(* ----------------------------- C2 (Spec) ------------------------------- *)

\* C2: dedup idempotence: in every reachable store, for every user and every
\* batch, a second upsert_activities call with the identical batch returns 0
\* and leaves the table (row count and every data field) as the first call
\* left it; and a call whose records are all stored already returns 0 and
\* changes nothing.
C2_DedupIdempotent ==
    /\ \A u \in Users, b \in StoreBatches :
          LET first  == upsert_activities(cached_activities, u, b, 0)
              second == upsert_activities(first.rows, u, b, 0)
          IN  ~first.raised =>
                 /\ ~second.raised
                 /\ second.ret = 0
                 /\ second.rows = first.rows
    /\ (last.op = "upsert_activities" /\ last.resent /\ ~last.raised) =>
          (last.ret = 0 /\ ~last.changed)

\* a two-record batch whose records were all stored already was upserted again
C2_Witness ==
    /\ last.op = "upsert_activities"
    /\ last.resent
    /\ last.valid = 2
    /\ last.ret = 0
    /\ ~last.changed

(* ----------------------------- C3 (Spec) ------------------------------- *)

\* C3: no duplicate keys: in every reachable store at most one cached
\* activity row exists per (user_name, garmin_id), and upserting a record
\* whose key may exist already leaves exactly one row for that key, holding
\* the data fields of the upserted (later) record.
C3_NoDuplicateKeys ==
    /\ \A r1, r2 \in cached_activities :
          (r1.user_name = r2.user_name /\ r1.garmin_id = r2.garmin_id)
             => r1 = r2
    /\ \A u \in Users, b \in StoreBatches :
          (Len(b) = 1 /\ b[1].activityId # 0) =>
             LET after == upsert_activities(cached_activities, u, b, 0).rows
             IN  { r \in after : r.user_name = u
                                 /\ r.garmin_id = b[1].activityId }
                   = { [user_name        |-> u,
                        garmin_id        |-> b[1].activityId,
                        activity_type    |-> b[1].activityType,
                        distance_m       |-> b[1].distance,
                        elevation_gain_m |-> b[1].elevationGain,
                        duration_s       |-> b[1].duration,
                        calories         |-> b[1].calories,
                        start_time       |-> b[1].startTimeLocal,
                        activity_json    |-> b[1]] }

\* an upsert overwrote a stored row with different values without adding a row
C3_Witness ==
    /\ last.op = "upsert_activities"
    /\ ~last.raised
    /\ last.valid >= 1
    /\ last.fresh = 0
    /\ last.changed
    /\ get_activity_count(cached_activities, last.user) = last.before


(* --------------------------- C4 (SpecSync) ----------------------------- *)

\* C4: watermark monotonicity: across a sync_user call the stored
\* last_synced_at of the user never decreases, it changes only when the call
\* returned normally, and a call whose resume, display-name lookup or
\* activity fetch raised leaves it exactly as it was.
C4_WatermarkMonotone ==
    [][(last'.op = "sync_user" /\ ops' # ops) =>
          LET was == LastSynced(users, last'.user)
              is  == LastSynced(users', last'.user)
          IN  /\ is >= was
              /\ (is # was => ~last'.raised)
              /\ (last'.adapter_failed => is = was)]_vars

\* a sync whose activity fetch raised left a known sync time in place
C4_Witness ==
    /\ last.op = "sync_user"
    /\ last.raised
    /\ last.adapter_failed
    /\ last.calls # {}
    /\ last.synced_before # None
    /\ LastSynced(users, last.user) = last.synced_before

(* -------------------------- C5 (SpecRollup) ---------------------------- *)

Day(t) == DaysFromCivil(t.y, t.m, t.d)

\* the Monday (as a day number) of the 7-day window that holds day z
MondayOf(z) == CHOOSE m \in (z - 6)..z : (m + 3) % 7 = 0

\* the cached activities of u that start in [monday, monday + 7 days)
InWindow(rows, u, monday) ==
    { a \in rows : /\ a.user_name = u
                   /\ a.start_time.kind = "iso"
                   /\ monday <= Day(a.start_time)
                   /\ Day(a.start_time) < monday + 7 }

RECURSIVE SumOf(_, _)
SumOf(S, field) ==
    IF S = {} THEN 0
    ELSE LET a == CHOOSE x \in S : TRUE
         IN  (CASE field = "distance" -> a.distance_m
                [] field = "duration" -> a.duration_s
                [] OTHER              -> a.calories)
             + SumOf(S \ {a}, field)

\* the row holds the sums and the count over the activities acts
RowMatches(row, acts) ==
    /\ row.total_distance_m = SumOf(acts, "distance")
    /\ row.total_duration_s = SumOf(acts, "duration")
    /\ row.total_calories = SumOf(acts, "calories")
    /\ row.total_activities = Cardinality(acts)

\* C5: rollup exactness: right after compute_weekly_stats(u) returned, for
\* every week that holds a cached activity of u with a parseable start time
\* there is exactly one weekly_stats row (u, Monday of that week), and its
\* totals and count are the sums and the count over exactly the cached
\* activities of u that start in [Monday, Monday + 7 days).
C5_RollupExactness ==
    (last.op = "compute_weekly_stats" /\ ~last.raised) =>
        \A a \in cached_activities :
            (a.user_name = last.user /\ a.start_time.kind = "iso") =>
                LET monday == MondayOf(Day(a.start_time))
                    rows   == { w \in weekly_stats :
                                  /\ w.user_name = last.user
                                  /\ Day(w.week_start) = monday }
                IN  /\ Cardinality(rows) = 1
                    /\ \A w \in rows :
                          RowMatches(w, InWindow(cached_activities,
                                                 last.user, monday))

\* a recomputation left a rollup that sums two activities of one week
C5_Witness ==
    /\ last.op = "compute_weekly_stats"
    /\ ~last.raised
    /\ \E w \in weekly_stats :
          /\ w.user_name = last.user
          /\ w.total_activities = 2
          /\ Cardinality(InWindow(cached_activities, last.user,
                                  Day(w.week_start))) = 2

(* -------------------------- C6 (SpecRollup) ---------------------------- *)

\* C6 as claimed: right after compute_weekly_stats(u) returned, every
\* weekly_stats row stored for u equals the sums over the currently cached
\* activities of u that start in the row's 7-day window.
C6_EveryRowExact ==
    (last.op = "compute_weekly_stats" /\ ~last.raised) =>
        \A w \in weekly_stats :
            w.user_name = last.user =>
                RowMatches(w, InWindow(cached_activities, last.user,
                                       Day(w.week_start)))

\* C6 as amended: across compute_weekly_stats(u), every weekly_stats row of u
\* whose window holds a cached activity of u with a parseable start time
\* equals the sums over those activities, and every row of u whose window
\* holds none is exactly the row that was stored before the pass.
C6_RowsExactOrLeftAlone ==
    [][(last'.op = "compute_weekly_stats" /\ ops' # ops /\ ~last'.raised) =>
          \A w \in weekly_stats' :
              w.user_name = last'.user =>
                  LET acts == InWindow(cached_activities', last'.user,
                                       Day(w.week_start))
                  IN  IF acts # {} THEN RowMatches(w, acts)
                      ELSE w \in weekly_stats]_vars

\* after a recomputation a rollup of the user remains whose week holds no
\* cached activity any more, next to a rollup that was recomputed
C6_Witness ==
    /\ last.op = "compute_weekly_stats"
    /\ ~last.raised
    /\ \E w \in weekly_stats :
          /\ w.user_name = last.user
          /\ w.total_activities > 0
          /\ InWindow(cached_activities, last.user, Day(w.week_start)) = {}
    /\ \E w \in weekly_stats :
          /\ w.user_name = last.user
          /\ InWindow(cached_activities, last.user, Day(w.week_start)) # {}

(* -------------------------- C7 (SpecRollup) ---------------------------- *)

\* C7: cascade delete: after delete_user(u) returned, no users row, cached
\* activity or weekly rollup of u is left (the count is 0 and the two
\* queries return nothing) and the rows of the other users are as before;
\* when one of the three deletions raised, none of them is applied.
C7_CascadeDelete ==
    [][(last'.op = "delete_user" /\ ops' # ops) =>
          IF last'.raised
          THEN UNCHANGED <<users, cached_activities, weekly_stats>>
          ELSE /\ ~\E r \in users' : r.name = last'.user
               /\ get_activity_count(cached_activities', last'.user) = 0
               /\ get_cached_activities(cached_activities', last'.user, 100)
                     = {<<>>}
               /\ get_weekly_stats(weekly_stats', last'.user, 8) = {<<>>}
               /\ users' = { r \in users : r.name # last'.user }
               /\ cached_activities' =
                     { r \in cached_activities : r.user_name # last'.user }
               /\ weekly_stats' =
                     { r \in weekly_stats : r.user_name # last'.user }]_vars

\* a registered user with cached activities and a rollup was deleted
C7_Witness ==
    /\ last.op = "delete_user"
    /\ ~last.raised
    /\ last.registered_before
    /\ last.before >= 1
    /\ last.rollups_before >= 1
    /\ get_activity_count(cached_activities, last.user) = 0

(* --------------------------- C8 (SpecSync) ----------------------------- *)

\* C8: backfill-then-incremental: when sync_user reaches the adapter it asks
\* for the long backfill window (days = 90) if the user has no cached
\* activity and for the short incremental window (days = 7) otherwise.
C8_WindowFollowsCache ==
    (last.op = "sync_user" /\ last.calls # {}) =>
        last.calls = IF last.before = 0
                     THEN {DaysArg(BACKFILL_DAYS)}
                     ELSE {DaysArg(INCREMENTAL_DAYS)}

(* --------------------------- C9 (SpecSync) ----------------------------- *)

\* C9: fail one, continue all: in every reachable store, for every list of
\* names and every pattern of adapter failures, sync_all_users does not
\* raise and returns one result per name in list order: the error entry
\* (user, message) when sync_user raised for that name on the store as the
\* earlier names left it, the success summary of that sync_user otherwise.
C9_FailOneContinueAll ==
    /\ \A names \in NameLists, world \in Worlds :
          LET r == sync_all_users(Db, names, world, now)
          IN  /\ ~r.raised
              /\ Len(r.results) = Len(names)
              /\ \A i \in 1..Len(names) :
                    LET pre == sync_all_users(Db, SubSeq(names, 1, i - 1),
                                              world, now).db
                        one == sync_user(pre, names[i], NullText,
                                         world[names[i]], now)
                    IN  /\ r.results[i].user = names[i]
                        /\ IF one.raised
                           THEN /\ r.results[i].error = one.error
                                /\ r.results[i].error # ""
                           ELSE r.results[i] = one.result
    /\ (last.op = "sync_all_users") => (~last.raised /\ last.ret = last.valid)

\* a pass over two names returned two results, both error entries
C9_Witness ==
    /\ last.op = "sync_all_users"
    /\ ~last.raised
    /\ last.valid = 2
    /\ last.ret = 2
    /\ last.errors = 2

(* --------------------------- C10 (SpecSync) ---------------------------- *)

\* C10: no cache mutation before the adapter returns: a sync_user call
\* whose resume, display-name lookup or activity fetch raised leaves the
\* users, cached_activities and weekly_stats tables exactly as they were.
C10_NoMutationBeforeFetch ==
    [][(last'.op = "sync_user" /\ ops' # ops /\ last'.adapter_failed) =>
          /\ last'.raised
          /\ UNCHANGED <<users, cached_activities, weekly_stats>>]_vars

\* a sync failed at the adapter against a store that holds a user and
\* cached activities
C10_Witness ==
    /\ last.op = "sync_user"
    /\ last.raised
    /\ last.adapter_failed
    /\ ~last.changed
    /\ users # {}
    /\ cached_activities # {}

(* --------------------------- C11 (SpecMerge) --------------------------- *)

\* C11: a failure during the merge is all-or-nothing: when upsert_activities
\* raises on the k-th record none of the records before it is stored or
\* updated (the table is as before the call), wherever the failing statement
\* sits in the batch; and when the merge raises inside sync_user the
\* exception reaches the caller, upsert_user is not called and last_synced_at
\* is not advanced (the whole store is as before).
C11_MergeAllOrNothing ==
    /\ (last.op = "upsert_activities" /\ last.raised) => ~last.changed
    /\ \A u \in Users, b \in MergeBatches, f \in 0..MaxBatch :
          LET r == upsert_activities(cached_activities, u, b, f)
          IN  r.raised => r.rows = cached_activities
    /\ \A u \in Users, b \in MergeBatches :
          LET merge == upsert_activities(cached_activities, u, Filter2026(b), 0)
              r     == SyncMerge(Db, u, NullText, "Pat", b, now)
          IN  merge.raised => (r.raised /\ r.db = Db)

\* upsert_activities raised after a record of the batch had been inserted
\* inside the transaction, and the table is as it was
C11_Witness ==
    /\ last.op = "upsert_activities"
    /\ last.raised
    /\ last.ret >= 1
    /\ last.valid = 2
    /\ ~last.changed

(* --------------------------- C12 (SpecMerge) --------------------------- *)

DisplayNames == {"Pat", NullText}

Stamps == {None} \cup (1..MaxClock)

\* the row upsert_user(name, garmin_email, display_name, last_synced_at) is
\* to leave for name in a table that held rows before the call
MergedUser(rows, name, garmin_email, display_name, last_synced_at) ==
    UserRow(name, garmin_email, display_name,
            IF last_synced_at # None THEN last_synced_at
            ELSE LastSynced(rows, name))

\* the merge policy for a call that is carried out
PolicyHolds(rows, name, garmin_email, display_name, last_synced_at) ==
    LET r     == upsert_user(rows, name, garmin_email, display_name,
                             last_synced_at)
        again == upsert_user(r.rows, name, garmin_email, display_name,
                             last_synced_at)
    IN  /\ ~r.raised
        /\ { x \in r.rows : x.name = name }
              = { MergedUser(rows, name, garmin_email, display_name,
                             last_synced_at) }
        /\ { x \in r.rows : x.name # name } = { x \in rows : x.name # name }
        /\ LastSynced(rows, name) # None => LastSynced(r.rows, name) # None
        /\ ~again.raised
        /\ again.rows = r.rows

\* C13 (as claimed): upsert_user inserts the user when absent, overwrites
\* garmin_email and display_name unconditionally when the user exists,
\* overwrites last_synced_at only with a non-null value, and a repeated
\* identical call changes nothing and raises nothing -- for every call.
C13_MergePolicy ==
    \A u \in Users, e \in Emails \cup {NullText}, d \in DisplayNames,
       t \in Stamps :
        PolicyHolds(users, u, e, d, t)

\* C13 (amended): the merge policy holds for every call whose garmin_email
\* is null or not held by another user's row; a call whose non-null
\* garmin_email is held by another user's row raises (UNIQUE constraint on
\* garmin_email) and leaves the users table as it was; and no call turns a
\* non-null last_synced_at into null.
C13_MergePolicyUnlessEmailTaken ==
    /\ \A u \in Users, e \in Emails \cup {NullText}, d \in DisplayNames,
          t \in Stamps :
          IF e # NullText /\ \E x \in users : x.name # u /\ x.garmin_email = e
          THEN LET r == upsert_user(users, u, e, d, t)
               IN  r.raised /\ r.rows = users
          ELSE PolicyHolds(users, u, e, d, t)
    /\ (last.op = "upsert_user" /\ last.synced_before # None)
          => LastSynced(users, last.user) # None

\* an upsert_user call with a null last_synced_at changed the row of a user
\* whose stored last_synced_at was set at an earlier time, and kept it
C13_Witness ==
    /\ last.op = "upsert_user"
    /\ ~last.raised
    /\ last.changed
    /\ last.synced_before # None
    /\ last.synced_before < now
    /\ LastSynced(users, last.user) = last.synced_before

(* --------------------------- C14 (SpecMerge) --------------------------- *)

\* C14: for every batch, upsert_activities does not raise, stores every
\* record that carries an activityId (the row of its key holds the fields of
\* the last record of the batch with that id), stores nothing for the
\* records that carry none, and leaves every other row alone.
C14_SkipIdlessStoreRest ==
    \A u \in Users, b \in MergeBatches :
        LET r == upsert_activities(cached_activities, u, b, 0)
        IN  /\ ~r.raised
            /\ \A i \in ValidRecords(b) :
                  \E j \in ValidRecords(b) :
                      /\ j >= i
                      /\ b[j].activityId = b[i].activityId
                      /\ ActivityRow(u, b[j]) \in r.rows
            /\ \A x \in r.rows : x.garmin_id # 0
            /\ \A x \in r.rows \ cached_activities :
                  \E i \in ValidRecords(b) : x = ActivityRow(u, b[i])
            /\ \A x \in cached_activities \ r.rows :
                  \E i \in ValidRecords(b) :
                      /\ x.user_name = u
                      /\ x.garmin_id = b[i].activityId

(* --------------------------- C15 (SpecMerge) --------------------------- *)

\* the records of a fetched list that carry an id but no usable start time
Timeless(b) ==
    { i \in ValidRecords(b) : ~Parseable(StartTimeOf(b[i])) }

\* C15: a fetched record whose start time is absent or cannot be parsed is
\* not dropped by the sync: after sync_user against a working remote side
\* that returns it, it is stored and counted in the cached total, and
\* compute_weekly_stats then skips it without raising and gives it no
\* rollup.
C15_TimelessStored ==
    \A u \in Users, a \in MergeAdapters :
        (/\ a.resume_ok /\ a.name_ok /\ a.fetch_ok
         /\ \A i \in 1..Len(a.reply) : ~TypeKeyRaises(a.reply[i])
         /\ Timeless(a.reply) # {})
        => LET r == sync_user(Db, u, NullText, a, now)
           IN  /\ ~r.raised
               /\ \A i \in Timeless(a.reply) :
                     \E x \in r.db.cached_activities :
                         /\ x.user_name = u
                         /\ x.garmin_id = a.reply[i].activityId
                         /\ ~Parseable(x.start_time)
               /\ r.result.cached
                     = get_activity_count(r.db.cached_activities, u)
               /\ \A f \in get_cached_activities(r.db.cached_activities, u,
                                                 COMPUTE_LIMIT) :
                     LET w == compute_weekly_stats(r.db.weekly_stats, u, f, 0)
                     IN  /\ ~w.raised
                         /\ w.weeks = Cardinality(
                                { WeekKey(f[k].start_time) :
                                    k \in { j \in 1..Len(f) :
                                              Parseable(f[j].start_time) } })

(* --------------------------- C16 (SpecMerge) --------------------------- *)

\* C16: hard lower bound: whatever the remote side returns, sync_user neither
\* inserts a cached activity that starts before 2026-01-01 nor updates a
\* stored one from such a record; the statements that follow the fetch
\* remove the records before the bound before upsert_activities is called
\* and do not count them in fetched.
C16_HardLowerBound ==
    /\ \A u \in Users, a \in MergeAdapters :
          LET r == sync_user(Db, u, NullText, a, now)
          IN  \A x \in r.db.cached_activities \ cached_activities :
                  ~TextLess(x.start_time, TRAINING_START_DATE)
    /\ \A u \in Users, b \in MergeBatches :
          LET r == SyncMerge(Db, u, NullText, "Pat", b, now)
          IN  /\ \A x \in r.db.cached_activities \ cached_activities :
                    ~TextLess(x.start_time, TRAINING_START_DATE)
              /\ ~r.raised =>
                    r.result.fetched <= Len(b) - Cardinality(Pre2026(b))
    /\ (last.op = "sync_user" /\ last.offered_old > 0) =>
          \A x \in cached_activities :
              (x.user_name = last.user
               /\ TextLess(x.start_time, TRAINING_START_DATE))
                 => last.before > 0

\* sync_user ran for a user without cached activities while the remote side
\* held a record before the bound, and the user has no cached activity that
\* starts before the bound
C16_Witness ==
    /\ last.op = "sync_user"
    /\ last.offered_old > 0
    /\ last.before = 0
    /\ \A x \in cached_activities :
          x.user_name = last.user
             => ~TextLess(x.start_time, TRAINING_START_DATE)

(* ---------------------------- C17 (SpecTxn) ---------------------------- *)

\* what Read(u) reports against the tables db
Observed(db, u) ==
    [users      |-> db.users,
     activities |-> { r \in db.cached_activities : r.user_name = u },
     count      |-> get_activity_count(db.cached_activities, u)]

\* the tables after the whole call of the open block, on the tables pre
PostState(t) ==
    IF t.op = "delete_user" THEN delete_user(t.pre, t.user, t.fault).db
    ELSE [t.pre EXCEPT !.cached_activities =
             upsert_activities(t.pre.cached_activities, t.user, t.batch,
                               t.fault).rows]

\* C17: readers never see a half-written batch: a read (get_all_users,
\* get_cached_activities, get_activity_count) made while an upsert_activities
\* batch or a delete_user is under way observes the tables as they were
\* before that call or as they are after the whole call, never a state with
\* only some records stored or only some of the three deletions applied;
\* and when the block is left the committed tables are those of the whole
\* call.
C17_ReadersSeePreOrPost ==
    /\ (last.op = "read" /\ InFlight) =>
          \/ last.seen = Observed(txn.pre, last.user)
          \/ last.seen = Observed(PostState(txn), last.user)
    /\ (last.op = "read" /\ txn.done) =>
          last.seen = Observed(PostState(txn), last.user)
    /\ last.op = "end" => Db = PostState(txn)

\* a read was made while the writer's connection held a batch of which one
\* record was written and another was not
C17_Witness ==
    /\ last.op = "read"
    /\ txn.op = "upsert_activities"
    /\ txn.i = 2
    /\ txn.work # txn.pre
    /\ txn.work # PostState(txn)
    /\ last.user = txn.user

(* --------------------------- C18 (SpecPart) ---------------------------- *)

\* the rows of user u in the three tables, and the store without them
Part(db, u) ==
    [users             |-> { r \in db.users : r.name = u },
     cached_activities |-> { r \in db.cached_activities : r.user_name = u },
     weekly_stats      |-> { r \in db.weekly_stats : r.user_name = u }]

Without(db, u) ==
    [users             |-> db.users \ Part(db, u).users,
     cached_activities |-> db.cached_activities \ Part(db, u).cached_activities,
     weekly_stats      |-> db.weekly_stats \ Part(db, u).weekly_stats]

\* the calls made for user u: upsert_activities, compute_weekly_stats,
\* delete_user (each with and without a failing statement), sync_user with
\* every email and remote side, and the statements of sync_user after the
\* fetch ("merge") as sync_all_users and daily_sync reach them (no email)
StepsOf(u) ==
    LET S(k, b, f, e, a) == [kind |-> k, user |-> u, batch |-> b, fault |-> f,
                             email |-> e, adapter |-> a]
        any == CHOOSE a \in AdapterStates : a.reply # <<>>
    IN  { S("upsert_activities", b, f, NullText, any)
            : b \in SeedBatches, f \in 0..1 }
        \cup { S("compute_weekly_stats", <<>>, f, NullText, any) : f \in 0..1 }
        \cup { S("delete_user", <<>>, f, NullText, any) : f \in 0..3 }
        \cup { S("sync_user", <<>>, 0, e, a)
                 : e \in Emails \cup {NullText}, a \in AdapterStates }
        \cup { S("merge", b, 0, NullText, any) : b \in SeedBatches \cup {<<>>} }

\* every outcome [db, raised] the call s may have on the store db
Outcomes(db, s) ==
    CASE s.kind = "upsert_activities" ->
           LET r == upsert_activities(db.cached_activities, s.user, s.batch,
                                      s.fault)
           IN  { [db |-> [db EXCEPT !.cached_activities = r.rows],
                  raised |-> r.raised] }
      [] s.kind = "compute_weekly_stats" ->
           { [db |-> [db EXCEPT !.weekly_stats =
                         compute_weekly_stats(db.weekly_stats, s.user, acts,
                                              s.fault).rows],
              raised |-> compute_weekly_stats(db.weekly_stats, s.user, acts,
                                              s.fault).raised]
             : acts \in get_cached_activities(db.cached_activities, s.user,
                                              COMPUTE_LIMIT) }
      [] s.kind = "delete_user" ->
           LET r == delete_user(db, s.user, s.fault)
           IN  { [db |-> r.db, raised |-> r.raised] }
      [] s.kind = "sync_user" ->
           LET r == sync_user(db, s.user, s.email, s.adapter, now)
           IN  { [db |-> r.db, raised |-> r.raised] }
      [] OTHER ->
           LET r == SyncMerge(db, s.user, NullText, "Pat", s.batch, now)
           IN  { [db |-> r.db, raised |-> r.raised] }

\* the stores two calls made one after the other may end in
Both(db, s, t) ==
    UNION { { r2.db : r2 \in Outcomes(r1.db, t) } : r1 \in Outcomes(db, s) }

RollupsOf(rows, u) ==
    { WeeklyRow(u, WeekKey(a.start_time),
                SumOf(InWindow(rows, u, MondayOf(Day(a.start_time))), "distance"),
                SumOf(InWindow(rows, u, MondayOf(Day(a.start_time))), "duration"),
                Cardinality(InWindow(rows, u, MondayOf(Day(a.start_time)))),
                SumOf(InWindow(rows, u, MondayOf(Day(a.start_time))), "calories"))
      : a \in { r \in rows : r.user_name = u /\ Parseable(r.start_time) } }

\* C19: rollups are a function of the cache contents only: in every
\* reachable store (whatever merges, sweeps and removals led to it) and for
\* every order in which get_cached_activities may hand out the cached
\* activities of u, compute_weekly_stats(u) on a store without rollups of u
\* writes exactly the rows determined by the set of cached activities of u;
\* and a second compute_weekly_stats(u) right after a first one leaves the
\* rollups as the first one left them.
C19_RollupsFromCacheOnly ==
    \A u \in Users :
        \A acts \in get_cached_activities(cached_activities, u, COMPUTE_LIMIT) :
            /\ compute_weekly_stats({ w \in weekly_stats : w.user_name # u },
                                    u, acts, 0).rows
                  = { w \in weekly_stats : w.user_name # u }
                    \cup RollupsOf(cached_activities, u)
            /\ \A again \in get_cached_activities(cached_activities, u,
                                                   COMPUTE_LIMIT) :
                  compute_weekly_stats(
                      compute_weekly_stats(weekly_stats, u, acts, 0).rows,
                      u, again, 0).rows
                  = compute_weekly_stats(weekly_stats, u, acts, 0).rows

\* a recomputation that changed nothing, for a user whose cached activities
\* can be handed out in more than one order and share one week
C19_Witness ==
    /\ last.op = "compute_weekly_stats"
    /\ ~last.raised
    /\ ~last.changed
    /\ Cardinality(get_cached_activities(cached_activities, last.user,
                                         COMPUTE_LIMIT)) >= 2
    /\ \E w \in weekly_stats :
          w.user_name = last.user /\ w.total_activities = 2

(* -------------------------- C20 (SpecRollup) --------------------------- *)

\* the weeks and the totals upsert_weekly_stats is called with
RollupWeeks == { WeekKey(Iso(2026, 1, 6)), WeekKey(Iso(2025, 12, 30)) }

RollupTotals ==
    { [distance_m |-> 0, duration_s |-> 0, activities |-> 0, calories |-> 0],
      [distance_m |-> 5, duration_s |-> 30, activities |-> 1, calories |-> 300],
      [distance_m |-> 13, duration_s |-> 90, activities |-> 2, calories |-> 800] }

SameKey(rows, row) ==
    { r \in rows : r.user_name = row.user_name /\ r.week_start = row.week_start }

\* C20: upsert_weekly_stats is a full overwrite: in every reachable store
\* each key (user_name, week_start) has at most one row, and for every user,
\* week and totals upsert_weekly_stats leaves exactly one row for the key,
\* holding the supplied totals whatever was stored, leaves every other row
\* alone, and a second call with the same totals changes nothing.
C20_FullOverwrite ==
    /\ \A w \in weekly_stats : SameKey(weekly_stats, w) = {w}
    /\ \A u \in Users, k \in RollupWeeks, t \in RollupTotals :
          LET row   == WeeklyRow(u, k, t.distance_m, t.duration_s,
                                 t.activities, t.calories)
              after == upsert_weekly_stats(weekly_stats, row)
          IN  /\ SameKey(after, row) = {row}
              /\ after \ {row} = weekly_stats \ SameKey(weekly_stats, row)
              /\ upsert_weekly_stats(after, row) = after

\* a recomputation of one week rewrote the one rollup row the user had
C20_Witness ==
    /\ last.op = "compute_weekly_stats"
    /\ ~last.raised
    /\ last.changed
    /\ last.ret = 1
    /\ last.rollups_before = 1
    /\ Cardinality({ w \in weekly_stats : w.user_name = last.user }) = 1

(* -------------------------- C21 (SpecRollup) --------------------------- *)

\* the rollup rows compute_weekly_stats(u) has no week for: the rows of other
\* users, and the rows of u whose week holds no cached activity of u with a
\* parseable start time
OutOfPass(rows, stats, u) ==
    { w \in stats : \/ w.user_name # u
                    \/ InWindow(rows, u, Day(w.week_start)) = {} }

\* C21: stale rollups are left untouched: in every reachable store, for
\* every user, every order of the cached rows and every position at which a
\* write may fail, compute_weekly_stats(u) leaves every rollup row of another
\* user and every row of u whose week holds no cached activity of u with a
\* parseable start time exactly as stored, removes no key, and adds or
\* changes only rows of u for weeks that hold such an activity.
C21_StaleRollupsUntouched ==
    \A u \in Users, f \in 0..2 :
        \A acts \in get_cached_activities(cached_activities, u, COMPUTE_LIMIT) :
            LET after == compute_weekly_stats(weekly_stats, u, acts, f).rows
            IN  /\ OutOfPass(cached_activities, weekly_stats, u) \subseteq after
                /\ \A w \in weekly_stats : SameKey(after, w) # {}
                /\ \A w \in after \ weekly_stats :
                      /\ w.user_name = u
                      /\ InWindow(cached_activities, u, Day(w.week_start)) # {}

\* a recomputation wrote a new rollup and left in place a stale one of the
\* same user that still counts an activity
C21_Witness ==
    /\ last.op = "compute_weekly_stats"
    /\ ~last.raised
    /\ last.changed
    /\ last.rollups_before >= 1
    /\ \E w \in OutOfPass(cached_activities, weekly_stats, last.user) :
          w.user_name = last.user /\ w.total_activities > 0

(* --------------------------- C22 (SpecQuery) --------------------------- *)

\* the stored rows a query for u ranges over ("": no user given)
Selected(rows, u) == { r \in rows : u = "" \/ r.user_name = u }

\* res is a list of distinct rows of sel, newest first, rows without a
\* start time after all rows that have one, of the length limit allows, and
\* rows without a start time are left out only for lack of room
QueryResultOk(res, sel, limit) ==
    /\ Len(res) = Min(limit, Cardinality(sel))
    /\ \A i \in 1..Len(res) : res[i] \in sel
    /\ \A i, j \in 1..Len(res) : i < j =>
          /\ res[i] # res[j]
          /\ (res[i].start_time.kind = "none" => res[j].start_time.kind = "none")
          /\ (res[i].start_time.kind = "iso" /\ res[j].start_time.kind = "iso")
                => Day(res[i].start_time) >= Day(res[j].start_time)
    /\ \A r \in sel :
          (r.start_time.kind # "none" /\ r \notin { res[i] : i \in 1..Len(res) })
             => \A i \in 1..Len(res) : res[i].start_time.kind # "none"

\* C22: get_cached_activities returns at most limit rows ordered by
\* start_time descending, restricted to the given user when one is given;
\* a row with a null start time never makes it raise, and such rows are
\* returned after all rows that have a start time whenever the limit leaves
\* room for them.
C22_QueryOrderAndLimit ==
    /\ \A u \in Users \cup {""}, limit \in QueryLimits :
          /\ get_cached_activities(cached_activities, u, limit) # {}
          /\ \A res \in get_cached_activities(cached_activities, u, limit) :
                QueryResultOk(res, Selected(cached_activities, u), limit)
    /\ (last.op = "get_cached_activities") =>
          QueryResultOk(last.rows, Selected(cached_activities, last.user),
                        last.valid)

\* a query returned a row without a start time behind a row that has one,
\* while the limit cut off neither
C22_Witness ==
    /\ last.op = "get_cached_activities"
    /\ last.user # ""
    /\ Len(last.rows) >= 2
    /\ Len(last.rows) = last.before
    /\ last.rows[1].start_time.kind = "iso"
    /\ last.rows[Len(last.rows)].start_time.kind = "none"

(* --------------------------- C23 (SpecLogin) --------------------------- *)

\* C23: user lifecycle: once the garmin_login form authenticated u with the
\* remote source, a users row for u exists, whether or not the sync that
\* follows the login succeeded.
C23_RowFromFirstLogin ==
    (last.op = "garmin_login" /\ last.authenticated) =>
        \E r \in users : r.name = last.user

(* --------------------------- C24 (SpecSync) ---------------------------- *)

\* C24: fixed-start fetch: whenever sync_user reaches the adapter, whatever
\* the number of cached activities, it asks for the window that starts at
\* the training start date 2026-01-01, and get_activities accepts the
\* arguments of that call.
C24_FixedStartFetchAccepted ==
    (last.op = "sync_user" /\ last.calls # {}) =>
        /\ last.calls = {StartDateArg(TRAINING_START_DATE)}
        /\ \A kw \in last.calls : kw.name \in GetActivitiesParams
        /\ last.error # "TypeError: unexpected keyword argument"

(* --------------------------- C25 (SpecMerge) --------------------------- *)

\* C25: the sync passes on the full in-window fetched set: of a fetched list
\* of dated records with an id, the defensive filter removes exactly the
\* records that start before 2026-01-01, and after the statements that
\* follow the fetch returned, every record that starts on or after the bound
\* (in 2026 or in a later year) is stored for the user.
C25_FullInWindowSetStored ==
    \A u \in Users, b \in WindowBatches :
        /\ \A i \in 1..Len(b) :
              (\E j \in 1..Len(Filter2026(b)) : Filter2026(b)[j] = b[i])
                 <=> ~TextLess(StartTimeOf(b[i]), TRAINING_START_DATE)
        /\ LET r == SyncMerge(Db, u, NullText, "Pat", b, now)
           IN  ~r.raised =>
                  \A i \in 1..Len(b) :
                      ~TextLess(StartTimeOf(b[i]), TRAINING_START_DATE)
                         => \E x \in r.db.cached_activities :
                               /\ x.user_name = u
                               /\ x.garmin_id = b[i].activityId

(* --------------------------- C26 (SpecDaily) --------------------------- *)

SyncEvents(trace) == SelectSeq(trace, LAMBDA e : e.step = "sync_user")

\* the log of a pass over names: sync_user ran once for every name, in
\* order, whatever happened to the names before it; compute_weekly_stats ran
\* right after a sync_user of the same user that returned, and only then
TraceOk(trace, names) ==
    /\ Len(SyncEvents(trace)) = Len(names)
    /\ \A i \in 1..Len(names) : SyncEvents(trace)[i].user = names[i]
    /\ \A k \in 1..Len(trace) :
          /\ trace[k].step = "compute_weekly_stats" =>
                /\ k > 1
                /\ trace[k - 1] = Event(trace[k].user, "sync_user", TRUE)
          /\ (trace[k].step = "sync_user" /\ trace[k].ok) =>
                /\ k < Len(trace)
                /\ trace[k + 1].step = "compute_weekly_stats"
                /\ trace[k + 1].user = trace[k].user

\* the counters and the exit status of a pass with that log
CountsOk(r, names) ==
    /\ r.error_count = Cardinality({ k \in 1..Len(r.trace) : ~r.trace[k].ok })
    /\ r.success_count + r.error_count = Len(names)
    /\ r.exit_status = 1 <=> (r.error_count > 0 /\ r.success_count = 0)

\* C26: daily sync pass ordering: for every list of connected users, every
\* pattern of adapter failures and of failing rollup writes, sync_all runs
\* sync_user for each user in turn and compute_weekly_stats(u) right after
\* sync_user(u) and only when it returned; a failure of either step counts as
\* one error for that user and the pass goes on; the exit status is 1
\* exactly when at least one user failed and none succeeded.  The same holds
\* for the loop body when sync_user returned (the statements of sync_user
\* after the fetch), and then the rollups are computed from the merged cache.
C26_DailyPassOrdering ==
    /\ \A names \in ConnectedLists, world \in Worlds, faults \in [Users -> 0..1] :
          /\ TraceOk(sync_all(Db, names, world, faults, now).trace, names)
          /\ CountsOk(sync_all(Db, names, world, faults, now), names)
    /\ \A u \in Users, b \in SeedBatches \cup {<<>>}, f \in 0..1 :
          /\ TraceOk(DailyEntry([db |-> Db, success_count |-> 0,
                                 error_count |-> 0, trace |-> <<>>], u,
                                SyncMerge(Db, u, NullText, "Pat", b, now),
                                f).trace, <<u>>)
          /\ CountsOk(DailyReturn(
                          DailyEntry([db |-> Db, success_count |-> 0,
                                      error_count |-> 0, trace |-> <<>>], u,
                                     SyncMerge(Db, u, NullText, "Pat", b, now),
                                     f)), <<u>>)
          /\ f = 0 =>
                RollupsOf(SyncMerge(Db, u, NullText, "Pat", b, now)
                              .db.cached_activities, u)
                \subseteq DailyEntry([db |-> Db, success_count |-> 0,
                                      error_count |-> 0, trace |-> <<>>], u,
                                     SyncMerge(Db, u, NullText, "Pat", b, now),
                                     f).db.weekly_stats
    /\ (last.op = "sync_all") =>
          /\ TraceOk(last.trace, last.names)
          /\ last.ret + last.errors = last.valid
          /\ last.raised <=> (last.errors > 0 /\ last.ret = 0)

\* a pass over two connected users in which both failed at sync_user: two
\* errors, no rollup recomputation, exit status 1
C26_Witness ==
    /\ last.op = "sync_all"
    /\ last.valid = 2
    /\ last.errors = 2
    /\ last.raised
    /\ Len(last.trace) = 2
    /\ cached_activities # {}

(* --------------------------- C27 (SpecMerge) --------------------------- *)

\* the value stored for an optional numeric field: 0 when absent or null
Defaulted(x) == IF x = None THEN 0 ELSE x

\* C27: absent or null optional fields never abort a batch: for every batch,
\* upsert_activities does not raise, and every record with an activityId is
\* stored (the last record of the batch with that id wins) with category
\* "unknown" when its activityType is absent or null and with 0 for every
\* numeric field that is absent or null.
C27_OptionalFieldsDefaulted ==
    \A u \in Users, b \in MergeBatches :
        LET r == upsert_activities(cached_activities, u, b, 0)
        IN  /\ ~r.raised
            /\ \A i \in ValidRecords(b) :
                  (\A j \in ValidRecords(b) :
                       b[j].activityId = b[i].activityId => j <= i)
                  => \E x \in r.rows :
                        /\ x.user_name = u
                        /\ x.garmin_id = b[i].activityId
                        /\ x.activity_type =
                              (IF b[i].activityType \in {"<absent>", "<None>"}
                               THEN "unknown" ELSE b[i].activityType)
                        /\ x.distance_m = Defaulted(b[i].distance)
                        /\ x.duration_s = Defaulted(b[i].duration)
                        /\ x.calories = Defaulted(b[i].calories)
                        /\ x.elevation_gain_m = Defaulted(b[i].elevationGain)

(* --------------------------- C28 (SpecLogin) --------------------------- *)

\* C28: each Garmin account can be connected only once: when the
\* garmin_login form has connected a user with an address, a connect attempt
\* that follows with the same address under another user name is rejected
\* by the get_user_by_email check (it does not get as far as authenticating).
C28_AccountConnectedOnce ==
    [][(/\ last.op = "garmin_login"
        /\ last.authenticated
        /\ last'.op = "garmin_login"
        /\ last'.user # last.user
        /\ last'.email = last.email) => ~last'.authenticated]_vars

(* --------------------------- C29 (SpecSync) ---------------------------- *)

\* every cached activity and every rollup belongs to a registered user
NoOrphans(db) ==
    /\ \A x \in db.cached_activities : \E r \in db.users : r.name = x.user_name
    /\ \A w \in db.weekly_stats : \E r \in db.users : r.name = w.user_name

\* the stores sync_user, compute_weekly_stats and delete_user can leave
\* behind when called on db, whatever the remote side does and wherever a
\* statement of delete_user fails
AfterStoreCalls(db, u) ==
    { sync_user(db, u, e, a, now).db
        : e \in Emails \cup {NullText}, a \in AdapterStates }
    \cup { delete_user(db, u, f).db : f \in 0..3 }
    \cup { [db EXCEPT !.weekly_stats =
               compute_weekly_stats(db.weekly_stats, u, acts, 0).rows]
           : acts \in get_cached_activities(db.cached_activities, u,
                                            COMPUTE_LIMIT) }

\* the stores the statements of sync_user after the fetch can leave behind,
\* a failing upsert_user after the merge included
AfterMerge(db, u) ==
    { SyncMerge(db, u, e, "Pat", b, now).db
        : e \in Emails \cup {NullText}, b \in SeedBatches }

\* C29: no orphaned rows: a store in which every cached activity and every
\* rollup has a users row is still such a store after sync_user (returning
\* or failing at any step, a failing upsert_user after the merge included),
\* after compute_weekly_stats and after delete_user.
C29_NoOrphanedRows ==
    NoOrphans(Db) =>
        \A u \in Users :
            \A db \in AfterStoreCalls(Db, u) \cup AfterMerge(Db, u) :
                NoOrphans(db)

(* ---------------------------- C30 (SpecPass) --------------------------- *)

\* the row compute_weekly_stats writes for the week record w of user u
RowOf(u, w) ==
    WeeklyRow(u, w.week_start, w.distance_m, w.duration_s, w.activities,
              w.calories)

\* C30: rollup recomputation commits one period at a time: in every
\* reachable store, when the write of the k-th week fails the rows of the
\* first k-1 weeks are the new ones and every other row is as it was before
\* the pass; during a pass run write by write the committed rollups are
\* always the store at the start with the first i-1 weeks overwritten; and
\* every row a concurrent get_weekly_stats returns is, whole, either the row
\* stored before the pass or the row the pass writes.
C30_OnePeriodAtATime ==
    /\ \A u \in Users :
          \A acts \in get_cached_activities(cached_activities, u, COMPUTE_LIMIT) :
              \A k \in 1..Len(GroupByWeek(<<>>, acts, 1)) :
                  LET weeks == GroupByWeek(<<>>, acts, 1)
                      r     == compute_weekly_stats(weekly_stats, u, acts, k)
                  IN  /\ r.raised
                      /\ \A i \in 1..(k - 1) : RowOf(u, weeks[i]) \in r.rows
                      /\ \A w \in r.rows :
                            w \in weekly_stats
                            \/ \E i \in 1..(k - 1) : w = RowOf(u, weeks[i])
                      /\ \A w \in weekly_stats :
                            w \in r.rows
                            \/ \E i \in 1..(k - 1) :
                                  RowOf(u, weeks[i]) \in SameKey(r.rows, w)
    /\ (txn.op = "compute_weekly_stats" /\ (InFlight \/ last.op = "end")) =>
          /\ weekly_stats = StoreWeeks(txn.pre.weekly_stats, txn.user,
                                       txn.batch, 1, txn.i)
          /\ (last.op = "get_weekly_stats") =>
                \A n \in 1..Len(last.rows) :
                    \/ last.rows[n] \in txn.pre.weekly_stats
                    \/ last.rows[n] \in StoreWeeks(txn.pre.weekly_stats,
                                                   txn.user, txn.batch, 1, 0)

\* a reader of get_weekly_stats, during a pass for the same user, got one
\* row the pass had already overwritten and one it had not reached yet
C30_Witness ==
    /\ last.op = "get_weekly_stats"
    /\ txn.op = "compute_weekly_stats"
    /\ InFlight
    /\ last.user = txn.user
    /\ \E n \in 1..Len(last.rows) : last.rows[n] \notin txn.pre.weekly_stats
    /\ \E n \in 1..Len(last.rows) :
          last.rows[n] \notin StoreWeeks(txn.pre.weekly_stats, txn.user,
                                         txn.batch, 1, 0)

====
